---- MODULE Spec2Model ----
(***************************************************************************)
(* Model of the environment-administration backend:                        *)
(*   - the JSON document store (utils/database: environments, profiles,    *)
(*     logins, login authentication, reconciliation with the directories   *)
(*     found on disk),                                                     *)
(*   - the environment detector and the credential file codec              *)
(*     (utils/ambiente-manager),                                           *)
(*   - the in-memory batch job processor (routes/admin, processarLote).    *)
(*                                                                         *)
(* Every store function is synchronous JavaScript running on one thread,   *)
(* so each call is one atomic action.  Record fields that no modelled      *)
(* function reads (timestamps, the environment owner's username and        *)
(* password hash) are left out of the records.                             *)
(***************************************************************************)
EXTENDS Integers, Sequences, FiniteSets, TLC

VARIABLES
  db,          \* the persisted document (data/database.json)
  agora,       \* the clock read by Date.now(), in milliseconds
  ultimaOp,    \* the last call: its name, what it returned (success, error)
               \* and the arguments the properties below refer to
  envFile,     \* the .env files on disk: a set of [path, conteudo]
  validando,   \* the update-credential calls awaiting validarTokenBanco
  lote,        \* the batch job held in lotesProcessamento
  emVoo,       \* indexes of the records whose lookup has not settled yet
  pcLote,      \* where processarLote stands: its state and its loop index i
  escrita,     \* what saveDatabase returned in the last call: "ok", "falhou",
               \* or "nenhuma" when the call did not reach it
  temArquivo,  \* whether data/database.json exists (db is then its content)
  esquema,     \* the DB_SCHEMA object in memory: loadDatabase returns this
               \* very object, not a copy, when there is no file
  disco,       \* the directories and files under BASE_PATH, the .env files
               \* apart: a set of [caminho, ehDiretorio, conteudo]
  ilegivel,    \* whether data/database.json exists with a content that
               \* readFileSync or JSON.parse throws on
  pedidos      \* the requests whose handler has a store call ahead or under
               \* way: a set of [pedido, nome, porta, pc, doc, criou]

vars == <<db, agora, ultimaOp, envFile, validando, lote, emVoo, pcLote, escrita,
          temArquivo, esquema, disco, ilegivel, pedidos>>

(***************************************************************************)
(* Bounds of the model.                                                    *)
(***************************************************************************)
MaxRelogio == 1      \* the clock runs from 0 to MaxRelogio
MaxAmbientes == 3    \* cap on the number of environment records
MaxListagem == 2     \* cap on the number of entries readdirSync returns
MaxLogins == 2       \* cap on the number of login records
MaxEmValidacao == 2  \* cap on the update-credential calls awaiting validation
MaxOndas == 2        \* the longest batch is MaxOndas full waves and one record

(***************************************************************************)
(* JavaScript values.                                                      *)
(***************************************************************************)
Null == "null"       \* null in a string-valued field
NullId == <<>>       \* null where an identifier is expected

\* Array.prototype.findIndex and find, given the indexes (from 1) of the
\* elements that pass the test: the first of them; 0 stands for -1 / undefined.
FindIndex(indices) ==
  IF indices = {} THEN 0 ELSE CHOOSE i \in indices : \A j \in indices : i <= j

\* Array.prototype.splice(index, 1)
Splice(s, i) == SubSeq(s, 1, i - 1) \o SubSeq(s, i + 1, Len(s))

\* Array.prototype.includes
Includes(s, x) == \E i \in 1..Len(s) : s[i] = x

\* crypto sha256 digest: injective on the passwords of the model
hashPassword(password) == <<"sha256", password>>

verifyPassword(password, hash) == hashPassword(password) = hash

\* DB_SCHEMA without the admin users and the integration catalog
DB_SCHEMA == [ambientes |-> <<>>, perfis |-> <<>>, logins |-> <<>>]

\* saveDatabase: the document on disk after the write; gravou is whether
\* writeFileSync succeeded (saveDatabase returns it).
saveDatabase(data, gravou) == IF gravou THEN data ELSE db

\* loadDatabase: the object the caller gets.  With a file it is a fresh
\* parse of the file; without one it is the DB_SCHEMA object itself, after
\* an attempt to write it to the file; with a file that cannot be read or
\* parsed it is the DB_SCHEMA object too, and nothing is written.
loadDatabase == IF temArquivo /\ ~ilegivel THEN db ELSE esquema

(***************************************************************************)
(* Decimal formatting and parsing of a port inside a directory name.       *)
(***************************************************************************)
RECURSIVE Digitos(_)
\* the digits `${porta}` prints
Digitos(n) == IF n < 10 THEN <<n>> ELSE Append(Digitos(n \div 10), n % 10)

RECURSIVE parseInt(_)
\* parseInt of a string of decimal digits
parseInt(ds) ==
  IF ds = <<>> THEN 0 ELSE 10 * parseInt(SubSeq(ds, 1, Len(ds) - 1)) + ds[Len(ds)]

\* A directory name is prefix, middle part, suffix; the middle part is a
\* sequence of digits, or <<"x">> for a part that is not all digits.
NomePasta(pre, meio, suf) == [pre |-> pre, meio |-> meio, suf |-> suf]

\* `rota-${porta}.producao`
PathDaPorta(porta) == NomePasta("rota-", Digitos(porta), ".producao")

\* `Ambiente ${porta}`
NomeDetectado(porta) == "Ambiente " \o ToString(porta)

(***************************************************************************)
(* Environment detector (utils/ambiente-manager).                          *)
(* What fs.readdirSync(BASE_PATH) returns is an input: a sequence of       *)
(* entries [nome, ehDiretorio, subpastas], nome a directory name as above, *)
(* subpastas the names of the directories found inside it.                 *)
(***************************************************************************)
bancosPossiveis == <<"presençabank", "V8", "hubcredito">>

mapeamentoBancos(pasta) ==
  CASE pasta = "presençabank" -> "presencabank"
    [] pasta = "V8" -> "v8"
    [] pasta = "hubcredito" -> "hubcredito"
    [] OTHER -> pasta

\* item.match(/rota-(\d+)\.producao/)
CasaPadrao(item) ==
  /\ item.meio # <<>>
  /\ \A i \in 1..Len(item.meio) : item.meio[i] \in 0..9

\* the filter of the forEach body: which entries become a detected environment
EhAmbiente(entrada) ==
  /\ entrada.nome.pre = "rota-"
  /\ entrada.nome.suf = ".producao"
  /\ entrada.nome # PathDaPorta(7000)
  /\ entrada.ehDiretorio
  /\ CasaPadrao(entrada.nome)
  /\ parseInt(entrada.nome.meio) # 7000

\* the object pushed for one directory
AmbienteDetectado(entrada) ==
  LET porta == parseInt(entrada.nome.meio)
      instalados == SelectSeq(bancosPossiveis, LAMBDA b : b \in entrada.subpastas)
  IN [nome |-> NomeDetectado(porta),
      porta |-> porta,
      path |-> entrada.nome,
      bancosPermitidos |-> [i \in 1..Len(instalados) |-> mapeamentoBancos(instalados[i])]]

RECURSIVE OrdenarPorPorta(_)
\* ambientes.sort((a, b) => a.porta - b.porta): a stable sort
OrdenarPorPorta(s) ==
  IF s = <<>> THEN <<>>
  ELSE LET resto == OrdenarPorPorta(SubSeq(s, 1, Len(s) - 1))
           x == s[Len(s)]
           k == Cardinality({i \in 1..Len(resto) : resto[i].porta <= x.porta})
       IN SubSeq(resto, 1, k) \o <<x>> \o SubSeq(resto, k + 1, Len(resto))

\* leuBase: whether readdirSync(BASE_PATH) returned (it throws otherwise)
detectarAmbientesExistentes(listagem, leuBase) ==
  IF ~leuBase THEN <<>>
  ELSE LET pastas == SelectSeq(listagem, EhAmbiente)
       IN OrdenarPorPorta([i \in 1..Len(pastas) |-> AmbienteDetectado(pastas[i])])

(***************************************************************************)
(* Store functions on environments (utils/database).  Each operator takes  *)
(* the loaded document d and returns                                       *)
(*   grava : whether saveDatabase is reached,                              *)
(*   doc   : the loaded object as the call leaves it, which is what is     *)
(*           handed to saveDatabase when it is reached,                    *)
(*   res   : what the function returns to its caller.                      *)
(* gravou is the outcome of saveDatabase, t the value of Date.now().       *)
(***************************************************************************)
Falha(d, erro) ==
  [grava |-> FALSE, doc |-> d, pasta |-> <<>>,
   res |-> [success |-> FALSE, error |-> erro]]

\* mutant of createAmbiente: the port check is missing
createAmbiente_SemVerificarPorta(d, nome, porta, bancosPermitidos, t, gravou) ==
  IF FindIndex({n \in 1..Len(d.ambientes) : d.ambientes[n].nome = nome}) # 0
  THEN Falha(d, "Ambiente já existe")
  ELSE [grava |-> TRUE,
        doc |-> [d EXCEPT !.ambientes =
                   Append(@, [id |-> <<"ambiente", t>>,
                              nome |-> nome,
                              porta |-> porta,
                              path |-> PathDaPorta(porta),
                              bancosPermitidos |-> bancosPermitidos,
                              pipelineKentro |-> Null,
                              ativo |-> TRUE])],
        res |-> [success |-> TRUE]]

createAmbiente(d, nome, porta, bancosPermitidos, t, gravou) ==
  IF FindIndex({n \in 1..Len(d.ambientes) : d.ambientes[n].porta = porta}) # 0
  THEN Falha(d, "Porta já está em uso")
  ELSE IF FindIndex({n \in 1..Len(d.ambientes) : d.ambientes[n].nome = nome}) # 0
  THEN Falha(d, "Ambiente já existe")
  ELSE LET novoAmbiente == [id |-> <<"ambiente", t>>,
                            nome |-> nome,
                            porta |-> porta,
                            path |-> PathDaPorta(porta),
                            bancosPermitidos |-> bancosPermitidos,
                            pipelineKentro |-> Null,
                            ativo |-> TRUE]
       IN [grava |-> TRUE,
           doc |-> [d EXCEPT !.ambientes = Append(@, novoAmbiente)],
           res |-> [success |-> TRUE]]

updateBancosPermitidos(d, ambienteId, bancosPermitidos, gravou) ==
  LET i == FindIndex({n \in 1..Len(d.ambientes) : d.ambientes[n].id = ambienteId})
  IN IF i = 0 THEN Falha(d, "Ambiente não encontrado")
     ELSE LET doc == [d EXCEPT !.ambientes[i].bancosPermitidos = bancosPermitidos]
          IN [grava |-> TRUE,
              doc |-> doc,
              res |-> IF gravou
                      THEN [success |-> TRUE]
                      ELSE [success |-> FALSE, error |-> "Erro ao salvar banco de dados"]]

\* dados is a record holding the fields of the request that are not undefined
updateAmbiente(d, ambienteId, dados, gravou) ==
  LET i == FindIndex({n \in 1..Len(d.ambientes) : d.ambientes[n].id = ambienteId})
      tem(campo) == campo \in DOMAIN dados
  IN IF i = 0 THEN Falha(d, "Ambiente não encontrado")
     ELSE IF /\ tem("nome")
             /\ FindIndex({j \in 1..Len(d.ambientes) :
                             /\ d.ambientes[j].nome = dados.nome
                             /\ d.ambientes[j].id # ambienteId}) # 0
     THEN Falha(d, "Ambiente já existe")
     ELSE LET a0 == d.ambientes[i]
              a1 == IF tem("nome") THEN [a0 EXCEPT !.nome = dados.nome] ELSE a0
              a2 == IF tem("pipelineKentro")
                    THEN [a1 EXCEPT !.pipelineKentro =
                            IF dados.pipelineKentro = "" THEN Null
                            ELSE dados.pipelineKentro]
                    ELSE a1
              a3 == IF tem("ativo") THEN [a2 EXCEPT !.ativo = dados.ativo] ELSE a2
          IN [grava |-> TRUE,
              doc |-> [d EXCEPT !.ambientes[i] = a3],
              res |-> [success |-> TRUE]]

\* mutant of deleteAmbiente: the directory is removed whatever saveDatabase
\* returned
deleteAmbiente_PastaSempre(d, ambienteId, remocao, gravou) ==
  LET index == FindIndex({n \in 1..Len(d.ambientes) : d.ambientes[n].id = ambienteId})
  IN IF index = 0 THEN Falha(d, "Ambiente não encontrado")
     ELSE [grava |-> TRUE,
           pasta |-> <<d.ambientes[index].path>>,
           doc |-> [d EXCEPT !.ambientes = Splice(@, index)],
           res |-> IF ~gravou
                   THEN [success |-> FALSE, error |-> "Erro ao salvar banco de dados"]
                   ELSE IF remocao = "erro"
                   THEN [success |-> TRUE, warning |-> "erro ao deletar a pasta"]
                   ELSE [success |-> TRUE, message |-> remocao]]

\* remocao: what removing the directory did: "removida", "inexistente" (there
\* was none), "erro" (it threw).  pasta is the directory the call went on to
\* remove, <<>> when it returned before that.
deleteAmbiente(d, ambienteId, remocao, gravou) ==
  LET index == FindIndex({n \in 1..Len(d.ambientes) : d.ambientes[n].id = ambienteId})
  IN IF index = 0 THEN Falha(d, "Ambiente não encontrado")
     ELSE [grava |-> TRUE,
           pasta |-> IF gravou THEN <<d.ambientes[index].path>> ELSE <<>>,
           doc |-> [d EXCEPT !.ambientes = Splice(@, index)],
           res |-> IF ~gravou
                   THEN [success |-> FALSE, error |-> "Erro ao salvar banco de dados"]
                   ELSE IF remocao = "erro"
                   THEN [success |-> TRUE, warning |-> "erro ao deletar a pasta"]
                   ELSE [success |-> TRUE, message |-> remocao]]

\* mutant of AtualizarExistente: the detected integrations always win
AtualizarExistente_Sobrescreve(ambienteExistente, ambienteDetectado) ==
  [ambienteExistente EXCEPT !.path = ambienteDetectado.path,
                            !.bancosPermitidos = ambienteDetectado.bancosPermitidos,
                            !.ativo = TRUE]

\* mutant of AtualizarExistente: the active flag is left as it is
AtualizarExistente_SemReativar(ambienteExistente, ambienteDetectado) ==
  [ambienteExistente EXCEPT
     !.path = ambienteDetectado.path,
     !.bancosPermitidos = IF Len(@) = 0 THEN ambienteDetectado.bancosPermitidos ELSE @]

\* the branch for a port the document already holds
AtualizarExistente(ambienteExistente, ambienteDetectado) ==
  [ambienteExistente EXCEPT
     !.path = ambienteDetectado.path,
     !.bancosPermitidos = IF Len(@) = 0 THEN ambienteDetectado.bancosPermitidos ELSE @,
     !.ativo = TRUE]

\* the branch for a port the document does not hold
NovoDetectado(ambienteDetectado, t) ==
  [id |-> <<"ambiente", t, ambienteDetectado.porta>>,
   nome |-> ambienteDetectado.nome,
   porta |-> ambienteDetectado.porta,
   path |-> ambienteDetectado.path,
   bancosPermitidos |-> ambienteDetectado.bancosPermitidos,
   pipelineKentro |-> Null,
   ativo |-> TRUE]

RECURSIVE SincronizarDetectados(_, _, _, _)
\* the forEach over ambientesDetectados, from its i-th element on
SincronizarDetectados(ambientes, detectados, i, t) ==
  IF i > Len(detectados) THEN ambientes
  ELSE LET ambienteDetectado == detectados[i]
           k == FindIndex({n \in 1..Len(ambientes) : ambientes[n].porta = ambienteDetectado.porta})
       IN IF ambienteDetectado.porta = 7000
          THEN SincronizarDetectados(ambientes, detectados, i + 1, t)
          ELSE IF k # 0
          THEN SincronizarDetectados(
                 [ambientes EXCEPT ![k] = AtualizarExistente(@, ambienteDetectado)],
                 detectados, i + 1, t)
          ELSE SincronizarDetectados(
                 Append(ambientes, NovoDetectado(ambienteDetectado, t)),
                 detectados, i + 1, t)

\* mutant of MarcarInativos: the template port is not exempted
MarcarInativos_SemExcecao(ambientes, detectados) ==
  [j \in 1..Len(ambientes) |->
     IF FindIndex({n \in 1..Len(detectados) : detectados[n].porta = ambientes[j].porta}) = 0
     THEN [ambientes[j] EXCEPT !.ativo = FALSE]
     ELSE ambientes[j]]

\* the second forEach: records whose directory was not detected
MarcarInativos(ambientes, detectados) ==
  [j \in 1..Len(ambientes) |->
     IF /\ FindIndex({n \in 1..Len(detectados) : detectados[n].porta = ambientes[j].porta}) = 0
        /\ ambientes[j].porta # 4000
     THEN [ambientes[j] EXCEPT !.ativo = FALSE]
     ELSE ambientes[j]]

sincronizarAmbientesExistentes(d, ambientesDetectados, t, gravou) ==
  [grava |-> TRUE,
   doc |-> [d EXCEPT !.ambientes =
              MarcarInativos(SincronizarDetectados(@, ambientesDetectados, 1, t),
                             ambientesDetectados)],
   res |-> [success |-> TRUE]]

(***************************************************************************)
(* The disk under BASE_PATH.  A path is the sequence of its names from     *)
(* BASE_PATH down, the first being a directory name as above; a node is    *)
(* [caminho, ehDiretorio, conteudo], conteudo the tokens of a file and     *)
(* <<>> for a directory.  The .env of an environment directory is kept in  *)
(* a set of its own, of [path, conteudo], path the directory name.         *)
(***************************************************************************)
\* path.join(caminho, item)
Juntar(caminho, item) == Append(caminho, item)

\* whether caminho is raiz or lies under it
Sob(raiz, caminho) ==
  /\ Len(raiz) <= Len(caminho)
  /\ SubSeq(caminho, 1, Len(raiz)) = raiz

\* fs.existsSync on a path of the disk
existe(nos, caminho) == \E n \in nos : n.caminho = caminho

\* fs.mkdirSync(caminho, { recursive: true })
mkdirSync(nos, caminho) ==
  nos \cup {[caminho |-> SubSeq(caminho, 1, k), ehDiretorio |-> TRUE, conteudo |-> <<>>] :
             k \in {j \in 1..Len(caminho) : ~existe(nos, SubSeq(caminho, 1, j))}}

\* deletarPastaRecursiva run to its end: the directory and all under it
deletarPastaRecursiva(nos, caminho) == {n \in nos : ~Sob(caminho, n.caminho)}

\* deletarPastaRecursiva that threw on the way: the directory is still
\* there (it is removed last); of what lies under it, some part is gone, a
\* directory only with all it held
RemocoesParciais(nos, caminho) ==
  LET dentro == {n \in nos : Sob(caminho, n.caminho) /\ n.caminho # caminho}
  IN {nos \ idos : idos \in {x \in SUBSET dentro :
                                \A n \in x : \A m \in dentro :
                                   Sob(n.caminho, m.caminho) => m \in x}}

\* the node of a path; only asked of a path that exists
No(nos, caminho) == CHOOSE n \in nos : n.caminho = caminho

\* The file and directory names of the model, in the order readdirSync
\* lists them (by code unit).
NomesEmOrdem ==
  <<".cache", ".env", ".git", "V8", "a.js", "cache-centralizado", "config",
    "config.env", "hubcredito", "index.js", "logs", "node_modules", "package.json",
    "presençabank", "shared", "src">>

\* fs.readdirSync(caminho): the names found in the directory
readdirSync(nos, caminho) ==
  SelectSeq(NomesEmOrdem,
            LAMBDA item : \E n \in nos : n.caminho = Juntar(caminho, item))

\* whether fs.mkdirSync(caminho, { recursive: true }) throws: a name on the
\* way is a file
mkdirLanca(nos, caminho) ==
  \E k \in 1..Len(caminho) :
     /\ existe(nos, SubSeq(caminho, 1, k))
     /\ ~No(nos, SubSeq(caminho, 1, k)).ehDiretorio

\* whether fs.copyFileSync(origem, destino) throws: the destination is a
\* directory, or the directory it is to be written in is not one
copyFileLanca(nos, destino) ==
  LET pai == SubSeq(destino, 1, Len(destino) - 1)
  IN \/ existe(nos, destino) /\ No(nos, destino).ehDiretorio
     \/ ~existe(nos, pai)
     \/ ~No(nos, pai).ehDiretorio

\* fs.copyFileSync(origem, destino) that does not throw
copyFileSync(nos, origem, destino) ==
  {n \in nos : n.caminho # destino}
    \cup {[caminho |-> destino, ehDiretorio |-> FALSE,
            conteudo |-> No(nos, origem).conteudo]}

\* The names of the model that start with a dot (names are atomic values).
NomesComPonto == {".cache", ".env", ".git"}

\* Ignorado without item.startsWith('.')
Ignorado_SemPonto(item) ==
  item = "node_modules" \/ item = "logs" \/ item = ".git"

\* item === 'node_modules' || item === 'logs' || item === '.git' ||
\* item.startsWith('.')
Ignorado(item) ==
  item = "node_modules" \/ item = "logs" \/ item = ".git" \/ item \in NomesComPonto

(***************************************************************************)
(* Strings that the code trims or compares without case are sequences of   *)
(* characters over "a", "A", "b", "B" and the blank " ".                    *)
(***************************************************************************)
RECURSIVE Trim(_)
\* String.prototype.trim
Trim(s) ==
  IF s = <<>> THEN s
  ELSE IF Head(s) = " " THEN Trim(Tail(s))
  ELSE IF s[Len(s)] = " " THEN Trim(SubSeq(s, 1, Len(s) - 1))
  ELSE s

\* String.prototype.toLowerCase
ToLowerCase(s) ==
  [i \in 1..Len(s) |-> CASE s[i] = "A" -> "a" [] s[i] = "B" -> "b" [] OTHER -> s[i]]

(***************************************************************************)
(* Store functions on profiles.  Identifiers are atomic values that carry  *)
(* no blank; NullId stands for a null or absent identifier.                *)
(***************************************************************************)
PermissoesChaves ==
  {"bancos_testarAPIs", "bancos_gerenciarCredenciais", "ambientes_visualizar",
   "ambientes_sincronizar", "ambientes_reiniciar", "gerenciarAmbientes",
   "gerenciarAmbientes_definirBancos", "gerenciarAmbientes_nomearAmbiente",
   "criarPerfis", "clt_consulta", "clt_lote"}

\* permissoes is a record holding some of the keys; a missing key is false.
\* The outcome of saveDatabase is not looked at.
createPerfil(d, nome, permissoes, t, gravou) ==
  IF FindIndex({n \in 1..Len(d.perfis) : d.perfis[n].nome = nome}) # 0
  THEN Falha(d, "Perfil já existe")
  ELSE LET novoPerfil ==
             [id |-> <<"perfil", t>>,
              nome |-> nome,
              permissoes |-> [k \in PermissoesChaves |->
                                IF k \in DOMAIN permissoes THEN permissoes[k] ELSE FALSE],
              ativo |-> TRUE]
       IN [grava |-> TRUE,
           doc |-> [d EXCEPT !.perfis = Append(@, novoPerfil)],
           res |-> [success |-> TRUE]]

updatePerfil(d, perfilId, dados, gravou) ==
  LET i == FindIndex({n \in 1..Len(d.perfis) : d.perfis[n].id = perfilId})
      tem(campo) == campo \in DOMAIN dados
  IN IF i = 0 THEN Falha(d, "Perfil não encontrado")
     ELSE IF /\ tem("nome")
             /\ FindIndex({j \in 1..Len(d.perfis) :
                             /\ d.perfis[j].nome = dados.nome
                             /\ d.perfis[j].id # perfilId}) # 0
     THEN Falha(d, "Perfil já existe")
     ELSE LET p0 == d.perfis[i]
              p1 == IF tem("nome") THEN [p0 EXCEPT !.nome = dados.nome] ELSE p0
              p2 == IF tem("permissoes")
                    THEN [p1 EXCEPT !.permissoes =
                            [k \in PermissoesChaves |->
                               IF k \in DOMAIN dados.permissoes
                               THEN dados.permissoes[k] ELSE p1.permissoes[k]]]
                    ELSE p1
              p3 == IF tem("ativo") THEN [p2 EXCEPT !.ativo = dados.ativo] ELSE p2
          IN [grava |-> TRUE,
              doc |-> [d EXCEPT !.perfis[i] = p3],
              res |-> [success |-> TRUE]]

deletePerfil(d, perfilId, gravou) ==
  LET index == FindIndex({n \in 1..Len(d.perfis) : d.perfis[n].id = perfilId})
  IN IF index = 0 THEN Falha(d, "Perfil não encontrado")
     ELSE [grava |-> TRUE,
           doc |-> [d EXCEPT !.perfis = Splice(@, index)],
           res |-> [success |-> TRUE]]

(***************************************************************************)
(* Store functions on logins.                                              *)
(***************************************************************************)
createLogin(d, username, password, ambienteId, perfilId, t, gravou) ==
  LET usernameNormalizado == IF username # <<>> THEN Trim(username) ELSE <<>>
      perfilIdNormalizado == perfilId
  IN IF usernameNormalizado = <<>>
     THEN Falha(d, "Username não pode ser vazio")
     ELSE IF FindIndex({n \in 1..Len(d.logins) :
                          /\ d.logins[n].username # <<>>
                          /\ ToLowerCase(d.logins[n].username)
                               = ToLowerCase(usernameNormalizado)}) # 0
     THEN Falha(d, "Login já existe")
     ELSE IF FindIndex({n \in 1..Len(d.ambientes) : d.ambientes[n].id = ambienteId}) = 0
     THEN Falha(d, "Ambiente não encontrado")
     ELSE IF /\ perfilIdNormalizado # NullId
             /\ FindIndex({n \in 1..Len(d.perfis) :
                             d.perfis[n].id = perfilIdNormalizado}) = 0
     THEN Falha(d, "Perfil não encontrado")
     ELSE LET novoLogin == [id |-> <<"login", t>>,
                            username |-> usernameNormalizado,
                            passwordHash |-> hashPassword(password),
                            ambienteId |-> ambienteId,
                            perfilId |-> perfilIdNormalizado,
                            ativo |-> TRUE]
          IN [grava |-> TRUE,
              doc |-> [d EXCEPT !.logins = Append(@, novoLogin)],
              res |-> IF gravou
                      THEN [success |-> TRUE]
                      ELSE [success |-> FALSE,
                            error |-> "Erro ao salvar login no banco de dados"]]

\* dados is a record holding the fields of the request that are not
\* undefined.  The fields are applied in the order username, password,
\* ambienteId, perfilId, ativo to the loaded object; a failing field returns
\* before saveDatabase, with the fields before it applied to that object.
updateLogin(d, loginId, dados, gravou) ==
  LET i == FindIndex({n \in 1..Len(d.logins) : d.logins[n].id = loginId})
      tem(campo) == campo \in DOMAIN dados
      usernameNormalizado ==
        IF tem("username") /\ dados.username # <<>> THEN Trim(dados.username) ELSE <<>>
      l0 == d.logins[i]
      l1 == IF tem("username") THEN [l0 EXCEPT !.username = usernameNormalizado] ELSE l0
      l2 == IF tem("password") THEN [l1 EXCEPT !.passwordHash = hashPassword(dados.password)]
            ELSE l1
      l3 == IF tem("ambienteId") THEN [l2 EXCEPT !.ambienteId = dados.ambienteId] ELSE l2
      l4 == IF tem("perfilId") THEN [l3 EXCEPT !.perfilId = dados.perfilId] ELSE l3
      l5 == IF tem("ativo") THEN [l4 EXCEPT !.ativo = dados.ativo] ELSE l4
  IN IF i = 0 THEN Falha(d, "Login não encontrado")
     ELSE IF tem("username") /\ usernameNormalizado = <<>>
     THEN Falha(d, "Username não pode ser vazio")
     ELSE IF /\ tem("username")
             /\ FindIndex({n \in 1..Len(d.logins) :
                             /\ d.logins[n].id # loginId
                             /\ d.logins[n].username # <<>>
                             /\ ToLowerCase(d.logins[n].username)
                                  = ToLowerCase(usernameNormalizado)}) # 0
     THEN Falha(d, "Login já existe")
     ELSE IF /\ tem("ambienteId")
             /\ FindIndex({n \in 1..Len(d.ambientes) :
                             d.ambientes[n].id = dados.ambienteId}) = 0
     THEN Falha([d EXCEPT !.logins[i] = l2], "Ambiente não encontrado")
     ELSE IF /\ tem("perfilId")
             /\ dados.perfilId # NullId
             /\ FindIndex({n \in 1..Len(d.perfis) : d.perfis[n].id = dados.perfilId}) = 0
     THEN Falha([d EXCEPT !.logins[i] = l3], "Perfil não encontrado")
     ELSE [grava |-> TRUE,
           doc |-> [d EXCEPT !.logins[i] = l5],
           res |-> [success |-> TRUE]]

deleteLogin(d, loginId, gravou) ==
  LET index == FindIndex({n \in 1..Len(d.logins) : d.logins[n].id = loginId})
  IN IF index = 0 THEN Falha(d, "Login não encontrado")
     ELSE [grava |-> TRUE,
           doc |-> [d EXCEPT !.logins = Splice(@, index)],
           res |-> [success |-> TRUE]]

\* what authenticateLogin returns: a failure carries its errorCode, a success
\* the identifiers of the login, profile (NullId when the login has none or
\* its profile is not in the document) and environment it found
FalhaLogin(errorCode) == [success |-> FALSE, errorCode |-> errorCode]

\* db.logins.find by username, without case
BuscarLogin(d, usernameNormalizado) ==
  FindIndex({n \in 1..Len(d.logins) :
               /\ d.logins[n].username # <<>>
               /\ ToLowerCase(d.logins[n].username) = usernameNormalizado})

\* mutant of authenticateLogin: the environment's active flag is not looked at
authenticateLogin_SemAmbienteAtivo(d, username, password) ==
  LET usernameNormalizado ==
        IF username # <<>> THEN ToLowerCase(Trim(username)) ELSE <<>>
      i == BuscarLogin(d, usernameNormalizado)
  IN IF i = 0 THEN FalhaLogin("USER_NOT_FOUND")
     ELSE LET login == d.logins[i]
              p == FindIndex({n \in 1..Len(d.perfis) : d.perfis[n].id = login.perfilId})
              a == FindIndex({n \in 1..Len(d.ambientes) :
                                d.ambientes[n].id = login.ambienteId})
          IN IF ~login.ativo THEN FalhaLogin("USER_INACTIVE")
             ELSE IF ~verifyPassword(password, login.passwordHash)
             THEN FalhaLogin("INVALID_PASSWORD")
             ELSE IF login.perfilId # NullId /\ p # 0 /\ ~d.perfis[p].ativo
             THEN FalhaLogin("PERFIL_INACTIVE")
             ELSE IF a = 0 THEN FalhaLogin("AMBIENTE_NOT_FOUND")
             ELSE [success |-> TRUE,
                   login |-> login.id,
                   perfil |-> IF login.perfilId # NullId /\ p # 0
                              THEN d.perfis[p].id ELSE NullId,
                   ambiente |-> d.ambientes[a].id]

\* mutant of authenticateLogin: the password is verified before the login's
\* active flag
authenticateLogin_SenhaPrimeiro(d, username, password) ==
  LET usernameNormalizado ==
        IF username # <<>> THEN ToLowerCase(Trim(username)) ELSE <<>>
      i == BuscarLogin(d, usernameNormalizado)
  IN IF i = 0 THEN FalhaLogin("USER_NOT_FOUND")
     ELSE LET login == d.logins[i]
              p == FindIndex({n \in 1..Len(d.perfis) : d.perfis[n].id = login.perfilId})
              a == FindIndex({n \in 1..Len(d.ambientes) :
                                d.ambientes[n].id = login.ambienteId})
          IN IF ~verifyPassword(password, login.passwordHash)
             THEN FalhaLogin("INVALID_PASSWORD")
             ELSE IF ~login.ativo THEN FalhaLogin("USER_INACTIVE")
             ELSE IF login.perfilId # NullId /\ p # 0 /\ ~d.perfis[p].ativo
             THEN FalhaLogin("PERFIL_INACTIVE")
             ELSE IF a = 0 THEN FalhaLogin("AMBIENTE_NOT_FOUND")
             ELSE IF ~d.ambientes[a].ativo THEN FalhaLogin("AMBIENTE_INACTIVE")
             ELSE [success |-> TRUE,
                   login |-> login.id,
                   perfil |-> IF login.perfilId # NullId /\ p # 0
                              THEN d.perfis[p].id ELSE NullId,
                   ambiente |-> d.ambientes[a].id]

authenticateLogin(d, username, password) ==
  LET usernameNormalizado ==
        IF username # <<>> THEN ToLowerCase(Trim(username)) ELSE <<>>
      i == BuscarLogin(d, usernameNormalizado)
  IN IF i = 0 THEN FalhaLogin("USER_NOT_FOUND")
     ELSE LET login == d.logins[i]
              p == FindIndex({n \in 1..Len(d.perfis) : d.perfis[n].id = login.perfilId})
              a == FindIndex({n \in 1..Len(d.ambientes) :
                                d.ambientes[n].id = login.ambienteId})
          IN IF ~login.ativo THEN FalhaLogin("USER_INACTIVE")
             ELSE IF ~verifyPassword(password, login.passwordHash)
             THEN FalhaLogin("INVALID_PASSWORD")
             ELSE IF login.perfilId # NullId /\ p # 0 /\ ~d.perfis[p].ativo
             THEN FalhaLogin("PERFIL_INACTIVE")
             ELSE IF a = 0 THEN FalhaLogin("AMBIENTE_NOT_FOUND")
             ELSE IF ~d.ambientes[a].ativo THEN FalhaLogin("AMBIENTE_INACTIVE")
             ELSE [success |-> TRUE,
                   login |-> login.id,
                   perfil |-> IF login.perfilId # NullId /\ p # 0
                              THEN d.perfis[p].id ELSE NullId,
                   ambiente |-> d.ambientes[a].id]

(***************************************************************************)
(* Credential file codec (utils/ambiente-manager).  A file content, a line *)
(* and a credential value are sequences of tokens: a key name is one       *)
(* token, and so are "=", the blank " " and the line feed "\n".  An absent *)
(* or empty login or senha of a request is <<>>.                           *)
(***************************************************************************)
RECURSIVE Split(_, _)
\* String.prototype.split(sep)
Split(s, sep) ==
  IF s = <<>> THEN << <<>> >>
  ELSE LET r == Split(Tail(s), sep)
       IN IF Head(s) = sep THEN << <<>> >> \o r
          ELSE << <<Head(s)>> \o r[1] >> \o Tail(r)

RECURSIVE Join(_, _)
\* Array.prototype.join(sep)
Join(linhas, sep) ==
  IF linhas = <<>> THEN <<>>
  ELSE IF Len(linhas) = 1 THEN linhas[1]
  ELSE linhas[1] \o <<sep>> \o Join(Tail(linhas), sep)

\* String.prototype.startsWith
StartsWith(s, prefixo) ==
  /\ Len(s) >= Len(prefixo)
  /\ SubSeq(s, 1, Len(prefixo)) = prefixo

\* fs.existsSync, fs.readFileSync and fs.writeFileSync on the .env files
existsSync(arquivos, path) == \E f \in arquivos : f.path = path

readFileSync(arquivos, path) == (CHOOSE f \in arquivos : f.path = path).conteudo

writeFileSync(arquivos, path, conteudo) ==
  {f \in arquivos : f.path # path} \cup {[path |-> path, conteudo |-> conteudo]}

\* the .env criarEstruturaAmbiente writes when the directory has none
criarEstruturaAmbiente(arquivos, porta) ==
  IF existsSync(arquivos, PathDaPorta(porta)) THEN arquivos
  ELSE writeFileSync(arquivos, PathDaPorta(porta),
                     <<"# Configuração do Ambiente ", ToString(porta), "\n",
                       "PORT", "=", ToString(porta), "\n", "\n">>)

SemMapeamento == [login |-> "", senha |-> "", usr |-> "", pass |-> ""]

mapeamentoCredenciais(bancoId) ==
  CASE bancoId = "presencabank" ->
         [login |-> "PRECENÇABANK_LOGIN", senha |-> "PRECENÇABANK_SENHA",
          usr |-> "PRECENÇABANK_USR", pass |-> "PRECENÇABANK_PASS"]
    [] bancoId = "v8" ->
         [login |-> "V8_USERNAME", senha |-> "V8_PASSWORD",
          usr |-> "V8_USR", pass |-> "V8_PASS"]
    [] bancoId = "hubcredito" ->
         [login |-> "HUBCREDITO_USR", senha |-> "HUBCREDITO_PASS",
          usr |-> "HUBCREDITO_USR", pass |-> "HUBCREDITO_PASS"]
    [] OTHER -> SemMapeamento

\* a || b on key names
Ou(a, b) == IF a # "" THEN a ELSE b

\* the line test of both functions:
\* l.startsWith(campo + '=') || l.startsWith(primario + '=')
LinhaDoCampo(linha, campo, primario) ==
  \/ StartsWith(linha, <<campo, "=">>)
  \/ StartsWith(linha, <<primario, "=">>)

\* one field of the update: the first line of the key is replaced, or a
\* line is pushed
AtualizarCampo(linhas, campo, primario, valor) ==
  LET index == FindIndex({n \in 1..Len(linhas) : LinhaDoCampo(linhas[n], campo, primario)})
      linha == <<campo, "=">> \o valor
  IN IF index # 0 THEN [linhas EXCEPT ![index] = linha] ELSE Append(linhas, linha)

\* validacaoToken as the caller sees it: Null, "sucesso" or "excecao"
ResultadoGravacao(validacaoToken) ==
  [success |-> TRUE, message |-> "Credenciais atualizadas com sucesso",
   validacao |-> validacaoToken]

\* atualizarCredenciaisBanco before its await: the checks made on the
\* document; "" when they pass
ChecarAmbienteEBanco(d, ambienteId, bancoId) ==
  LET a == FindIndex({n \in 1..Len(d.ambientes) : d.ambientes[n].id = ambienteId})
  IN IF a = 0 THEN "Ambiente não encontrado"
     ELSE IF ~Includes(d.ambientes[a].bancosPermitidos, bancoId)
     THEN "Banco não permitido para este ambiente"
     ELSE ""

\* whether validarTokenBanco is awaited
PrecisaValidar(credenciais, validarToken) ==
  validarToken /\ credenciais.login # <<>> /\ credenciais.senha # <<>>

\* atualizarCredenciaisBanco after the validation: the read-modify-write of
\* the .env of ambiente, the record found before the validation.  Returns
\* the files on disk and the result of the call.
atualizarCredenciaisBanco(arquivos, ambiente, bancoId, credenciais, validacaoToken) ==
  LET envPath == ambiente.path
      envContent == IF existsSync(arquivos, envPath) THEN readFileSync(arquivos, envPath)
                    ELSE <<>>
      campos == mapeamentoCredenciais(bancoId)
      linhas0 == Split(envContent, "\n")
      linhas1 == IF credenciais.login # <<>>
                 THEN AtualizarCampo(linhas0, Ou(campos.login, campos.usr), campos.login,
                                     credenciais.login)
                 ELSE linhas0
      linhas2 == IF credenciais.senha # <<>>
                 THEN AtualizarCampo(linhas1, Ou(campos.senha, campos.pass), campos.senha,
                                     credenciais.senha)
                 ELSE linhas1
      atualizado == credenciais.login # <<>> \/ credenciais.senha # <<>>
  IN IF campos = SemMapeamento
     THEN [arquivos |-> arquivos,
           res |-> [success |-> FALSE,
                    error |-> "Banco não possui mapeamento de credenciais"]]
     ELSE IF atualizado
     THEN [arquivos |-> writeFileSync(arquivos, envPath, Join(linhas2, "\n")),
           res |-> ResultadoGravacao(validacaoToken)]
     ELSE [arquivos |-> arquivos,
           res |-> [success |-> FALSE, error |-> "Nenhuma credencial fornecida"]]

\* a field no line gave a value to
Ausente == <<"undefined">>

\* linha.split('=')[1]?.trim() || ''
ValorDaLinha(linha) ==
  LET partes == Split(linha, "=")
  IN IF Len(partes) >= 2 THEN Trim(partes[2]) ELSE <<>>

RECURSIVE LerLinhas(_, _, _, _)
\* the forEach over the lines, from the i-th on
LerLinhas(linhas, campos, i, credenciais) ==
  IF i > Len(linhas) THEN credenciais
  ELSE LET linha == linhas[i]
           c1 == IF LinhaDoCampo(linha, Ou(campos.login, campos.usr), campos.login)
                 THEN [credenciais EXCEPT !.login = ValorDaLinha(linha)]
                 ELSE credenciais
           c2 == IF LinhaDoCampo(linha, Ou(campos.senha, campos.pass), campos.senha)
                 THEN [c1 EXCEPT !.senha = ValorDaLinha(linha)]
                 ELSE c1
       IN LerLinhas(linhas, campos, i + 1, c2)

obterCredenciaisBanco(d, arquivos, ambienteId, bancoId) ==
  LET a == FindIndex({n \in 1..Len(d.ambientes) : d.ambientes[n].id = ambienteId})
      campos == mapeamentoCredenciais(bancoId)
  IN IF a = 0 THEN [success |-> FALSE, error |-> "Ambiente não encontrado"]
     ELSE IF ~existsSync(arquivos, d.ambientes[a].path)
     THEN [success |-> FALSE, error |-> "Arquivo .env não encontrado"]
     ELSE IF campos = SemMapeamento
     THEN [success |-> FALSE, error |-> "Banco não possui mapeamento"]
     ELSE [success |-> TRUE,
           credenciais |->
             LerLinhas(Split(readFileSync(arquivos, d.ambientes[a].path), "\n"),
                       campos, 1, [login |-> Ausente, senha |-> Ausente])]

(***************************************************************************)
(* Directory synchronizer (utils/ambiente-manager).  The lines of a        *)
(* config.env are sequences of tokens, as those of a .env; a prefix of the *)
(* keep and drop lists is <<key, "=">> when it names one key ('PORT='),    *)
(* and one token when it names all keys that start alike ('V8_', '#').     *)
(***************************************************************************)
\* the start of a token that the one-token prefixes are compared with
Familia(token) ==
  CASE token \in {"V8_USERNAME", "V8_PASSWORD", "V8_USR", "V8_PASS", "V8_API_URL"} -> "V8_"
    [] token \in {"HUBCREDITO_USR", "HUBCREDITO_PASS"} -> "HUBCREDITO_"
    [] token \in {"PRECENÇABANK_LOGIN", "PRECENÇABANK_SENHA", "PRECENÇABANK_USR",
                  "PRECENÇABANK_PASS"} -> "PRECENÇABANK_"
    [] token \in {"LOG_LEVEL"} -> "LOG_"
    [] token \in {"#", "# c"} -> "#"
    [] OTHER -> ""

\* linhaTrim.startsWith(prefixo)
ComecaCom(linhaTrim, prefixo) ==
  IF Len(prefixo) = 2 THEN StartsWith(linhaTrim, prefixo)
  ELSE linhaTrim # <<>> /\ Familia(Head(linhaTrim)) = prefixo[1]

SemRegras == [manter |-> <<>>, remover |-> <<>>]

\* credenciaisPorBanco[nomePastaBanco]
credenciaisPorBanco(pasta) ==
  CASE pasta = "presençabank" ->
         [manter |-> << <<"PRECENÇABANK_">>, <<"PORT", "=">>, <<"NODE_ENV", "=">>,
                        <<"LOG_">>, <<"TESTE_">>, <<"V8_API_URL", "=">>,
                        <<"V8_AUTH_URL", "=">>, <<"V8_CLIENT_ID", "=">>,
                        <<"V8_AUDIENCE", "=">>, <<"KENTRO_">>, <<"#">> >>,
          remover |-> << <<"HUBCREDITO_">>, <<"V8_USERNAME", "=">>,
                         <<"V8_PASSWORD", "=">> >>]
    [] pasta = "V8" ->
         [manter |-> << <<"V8_">>, <<"PORT", "=">>, <<"NODE_ENV", "=">>, <<"LOG_">>,
                        <<"HTTPS_PORT", "=">>, <<"KENTRO_">>, <<"#">> >>,
          remover |-> << <<"PRECENÇABANK_">>, <<"HUBCREDITO_">> >>]
    [] pasta = "hubcredito" ->
         [manter |-> << <<"HUBCREDITO_">>, <<"PORT", "=">>, <<"NODE_ENV", "=">>,
                        <<"LOG_">>, <<"TESTE_">>, <<"V8_API_URL", "=">>,
                        <<"V8_AUTH_URL", "=">>, <<"V8_CLIENT_ID", "=">>,
                        <<"V8_AUDIENCE", "=">>, <<"KENTRO_">>, <<"#">> >>,
          remover |-> << <<"PRECENÇABANK_">>, <<"V8_USERNAME", "=">>,
                         <<"V8_PASSWORD", "=">> >>]
    [] OTHER -> SemRegras

\* mapeamentoBancos[bancoId] || bancoId: the directory of an integration
nomePastaBanco(bancoId) ==
  CASE bancoId = "presencabank" -> "presençabank"
    [] bancoId = "v8" -> "V8"
    [] bancoId = "hubcredito" -> "hubcredito"
    [] OTHER -> bancoId

\* LinhaFica without linhaTrim === ''
LinhaFica_SemVazias(linha, regras) ==
  LET linhaTrim == Trim(linha)
      manter == \E k \in 1..Len(regras.manter) : ComecaCom(linhaTrim, regras.manter[k])
      remover == \E k \in 1..Len(regras.remover) : ComecaCom(linhaTrim, regras.remover[k])
  IN \/ ComecaCom(linhaTrim, <<"#">>)
     \/ manter /\ ~remover

\* the body of linhas.forEach: whether the line is pushed
LinhaFica(linha, regras) ==
  LET linhaTrim == Trim(linha)
      manter == \E k \in 1..Len(regras.manter) : ComecaCom(linhaTrim, regras.manter[k])
      remover == \E k \in 1..Len(regras.remover) : ComecaCom(linhaTrim, regras.remover[k])
  IN \/ linhaTrim = <<>>
     \/ ComecaCom(linhaTrim, <<"#">>)
     \/ manter /\ ~remover

\* filtrarConfigEnv that ends the content written with a line feed
filtrarConfigEnv_ComLinhaFinal(envContent, bancoId) ==
  LET regras == credenciaisPorBanco(nomePastaBanco(bancoId))
      linhas == Split(envContent, "\n")
      linhasFiltradas == SelectSeq(linhas, LAMBDA l : LinhaFica(l, regras))
  IN IF regras = SemRegras THEN envContent
     ELSE Join(linhasFiltradas, "\n") \o <<"\n">>

\* limparConfigEnvBanco on the content of the file: what the file holds
\* when the function returns
filtrarConfigEnv(envContent, bancoId) ==
  LET regras == credenciaisPorBanco(nomePastaBanco(bancoId))
      linhas == Split(envContent, "\n")
      linhasFiltradas == SelectSeq(linhas, LAMBDA l : LinhaFica(l, regras))
  IN IF regras = SemRegras THEN envContent
     ELSE Join(linhasFiltradas, "\n")

limparConfigEnvBanco(nos, bancoPath, bancoId) ==
  LET configEnvPath == Juntar(Juntar(bancoPath, "config"), "config.env")
  IN IF ~existe(nos, configEnvPath) THEN nos
     ELSE IF credenciaisPorBanco(nomePastaBanco(bancoId)) = SemRegras THEN nos
     ELSE {n \in nos : n.caminho # configEnvPath}
            \cup {[caminho |-> configEnvPath, ehDiretorio |-> FALSE,
                    conteudo |-> filtrarConfigEnv(No(nos, configEnvPath).conteudo,
                                                  bancoId)]}

\* whether limparConfigEnvBanco throws: readFileSync of a directory
limparLanca(nos, bancoPath, bancoId) ==
  LET configEnvPath == Juntar(Juntar(bancoPath, "config"), "config.env")
  IN /\ existe(nos, configEnvPath)
     /\ credenciaisPorBanco(nomePastaBanco(bancoId)) # SemRegras
     /\ No(nos, configEnvPath).ehDiretorio

\* The value of an expression, computed once: the one element of {e}.
Um(S) == CHOOSE x \in S : TRUE

RECURSIVE copiarDiretorio(_, _, _, _)
\* the body of items.forEach of copiarDiretorio for one item: the disk as it
\* leaves it, and whether it threw
CopiarItem(nos, item, origem, destino, bancoId) ==
  LET origemPath == Juntar(origem, item)
      destinoPath == Juntar(destino, item)
  IN IF Ignorado(item) THEN [nos |-> nos, lancou |-> FALSE]
     ELSE IF No(nos, origemPath).ehDiretorio
     THEN Um({[nos |-> dentro.nos, lancou |-> dentro.res = "throw"] :
                dentro \in {copiarDiretorio(nos, origemPath, destinoPath, bancoId)}})
     ELSE IF copyFileLanca(nos, destinoPath) THEN [nos |-> nos, lancou |-> TRUE]
     ELSE [nos |-> copyFileSync(nos, origemPath, destinoPath), lancou |-> FALSE]

RECURSIVE CopiarItens(_, _, _, _, _)
\* items.forEach of copiarDiretorio, from the first of items on
CopiarItens(nos, items, origem, destino, bancoId) ==
  IF items = <<>> THEN [nos |-> nos, lancou |-> FALSE]
  ELSE Um({IF passo.lancou THEN passo
           ELSE CopiarItens(passo.nos, Tail(items), origem, destino, bancoId) :
             passo \in {CopiarItem(nos, Head(items), origem, destino, bancoId)}})

\* copiarDiretorio(origem, destino, bancoId): the disk as the call leaves
\* it, and "false", "true" or "throw"; bancoId is Null when not given
copiarDiretorio(nos, origem, destino, bancoId) ==
  IF ~existe(nos, origem) THEN [nos |-> nos, res |-> "false"]
  ELSE IF ~existe(nos, destino) /\ mkdirLanca(nos, destino)
  THEN [nos |-> nos, res |-> "throw"]
  ELSE Um({IF ~No(nos, origem).ehDiretorio THEN [nos |-> criado, res |-> "throw"]
           ELSE Um({IF copia.lancou THEN [nos |-> copia.nos, res |-> "throw"]
                    ELSE IF bancoId = Null THEN [nos |-> copia.nos, res |-> "true"]
                    ELSE IF limparLanca(copia.nos, destino, bancoId)
                    THEN [nos |-> copia.nos, res |-> "throw"]
                    ELSE [nos |-> limparConfigEnvBanco(copia.nos, destino, bancoId),
                          res |-> "true"] :
                      copia \in {CopiarItens(criado, readdirSync(criado, origem),
                                             origem, destino, bancoId)}}) :
             criado \in {IF existe(nos, destino) THEN nos ELSE mkdirSync(nos, destino)}})

\* path.join(BASE_PATH, 'rota-4000.teste')
AMBIENTE_TESTE == <<NomePasta("rota-", <<4, 0, 0, 0>>, ".teste")>>

\* sincronizarBanco without the test of bancosPermitidos
sincronizarBanco_SemPermitidos(d, nos, ambienteId, bancoId) ==
  LET a == FindIndex({n \in 1..Len(d.ambientes) : d.ambientes[n].id = ambienteId})
      ambientePath == <<d.ambientes[a].path>>
      bancoOrigem == Juntar(AMBIENTE_TESTE, nomePastaBanco(bancoId))
      bancoDestino == Juntar(ambientePath, nomePastaBanco(bancoId))
  IN IF a = 0
     THEN [nos |-> nos, res |-> [success |-> FALSE, error |-> "Ambiente não encontrado"]]
     ELSE IF ~existe(nos, bancoOrigem)
     THEN [nos |-> nos,
           res |-> [success |-> FALSE, error |-> "Banco não encontrado na rota-4000"]]
     ELSE Um({IF copia.res = "throw"
              THEN [nos |-> copia.nos,
                    res |-> [success |-> FALSE, error |-> "Erro ao copiar banco"]]
              ELSE [nos |-> copia.nos,
                    res |-> [success |-> TRUE,
                             message |-> "Banco sincronizado com sucesso"]] :
                copia \in {copiarDiretorio(nos, bancoOrigem, bancoDestino, bancoId)}})

\* sincronizarBanco(ambienteId, bancoId): the disk as the call leaves it and
\* the result it returns
sincronizarBanco(d, nos, ambienteId, bancoId) ==
  LET a == FindIndex({n \in 1..Len(d.ambientes) : d.ambientes[n].id = ambienteId})
      ambientePath == <<d.ambientes[a].path>>
      bancoOrigem == Juntar(AMBIENTE_TESTE, nomePastaBanco(bancoId))
      bancoDestino == Juntar(ambientePath, nomePastaBanco(bancoId))
  IN IF a = 0
     THEN [nos |-> nos, res |-> [success |-> FALSE, error |-> "Ambiente não encontrado"]]
     ELSE IF ~Includes(d.ambientes[a].bancosPermitidos, bancoId)
     THEN [nos |-> nos,
           res |-> [success |-> FALSE, error |-> "Banco não permitido para este ambiente"]]
     ELSE IF ~existe(nos, bancoOrigem)
     THEN [nos |-> nos,
           res |-> [success |-> FALSE, error |-> "Banco não encontrado na rota-4000"]]
     ELSE Um({IF copia.res = "throw"
              THEN [nos |-> copia.nos,
                    res |-> [success |-> FALSE, error |-> "Erro ao copiar banco"]]
              ELSE [nos |-> copia.nos,
                    res |-> [success |-> TRUE,
                             message |-> "Banco sincronizado com sucesso"]] :
                copia \in {copiarDiretorio(nos, bancoOrigem, bancoDestino, bancoId)}})

RECURSIVE SincronizarBancos(_, _, _, _, _)
\* ambiente.bancosPermitidos.forEach of sincronizarAmbiente, from the first
\* of bancos on
SincronizarBancos(d, nos, ambienteId, bancos, resultados) ==
  IF bancos = <<>> THEN [nos |-> nos, resultados |-> resultados]
  ELSE Um({SincronizarBancos(d, resultado.nos, ambienteId, Tail(bancos),
                             Append(resultados,
                                    [banco |-> Head(bancos),
                                     success |-> resultado.res.success])) :
             resultado \in {sincronizarBanco(d, nos, ambienteId, Head(bancos))}})

compartilhados == <<"shared", "cache-centralizado">>

RECURSIVE CopiarNovos(_, _, _)
\* the two forEach of criarEstruturaAmbiente, one after the other: a unit is
\* the directory name and the bancoId passed on (Null for a shared one);
\* copied when the test environment has it and the environment has not
CopiarNovos(nos, ambientePath, unidades) ==
  IF unidades = <<>> THEN [nos |-> nos, lancou |-> FALSE]
  ELSE LET origem == Juntar(AMBIENTE_TESTE, Head(unidades).pasta)
           destino == Juntar(ambientePath, Head(unidades).pasta)
       IN IF ~(existe(nos, origem) /\ ~existe(nos, destino))
          THEN CopiarNovos(nos, ambientePath, Tail(unidades))
          ELSE Um({IF copia.res = "throw" THEN [nos |-> copia.nos, lancou |-> TRUE]
                   ELSE CopiarNovos(copia.nos, ambientePath, Tail(unidades)) :
                     copia \in {copiarDiretorio(nos, origem, destino,
                                                Head(unidades).bancoId)}})

\* criarEstruturaAmbiente on the directories: the base directory, then the
\* permitted integrations and the shared directories
criarEstruturaPastas(nos, porta, bancosPermitidos) ==
  LET ambientePath == <<PathDaPorta(porta)>>
      unidades == [i \in 1..Len(bancosPermitidos) |->
                     [pasta |-> nomePastaBanco(bancosPermitidos[i]),
                      bancoId |-> bancosPermitidos[i]]]
                  \o [i \in 1..Len(compartilhados) |->
                        [pasta |-> compartilhados[i], bancoId |-> Null]]
  IN Um({CopiarNovos(criado, ambientePath, unidades) :
           criado \in {mkdirSync(nos, ambientePath)}})

RECURSIVE SincronizarCompartilhados(_, _, _, _)
\* compartilhados.forEach of sincronizarAmbiente, from the first of itens on
SincronizarCompartilhados(nos, ambientePath, itens, resultados) ==
  IF itens = <<>> THEN [nos |-> nos, resultados |-> resultados, lancou |-> FALSE]
  ELSE LET origem == Juntar(AMBIENTE_TESTE, Head(itens))
           destino == Juntar(ambientePath, Head(itens))
       IN IF ~existe(nos, origem)
          THEN SincronizarCompartilhados(nos, ambientePath, Tail(itens), resultados)
          ELSE Um({IF copia.res = "throw"
                   THEN [nos |-> copia.nos, resultados |-> resultados, lancou |-> TRUE]
                   ELSE SincronizarCompartilhados(
                          copia.nos, ambientePath, Tail(itens),
                          Append(resultados, [item |-> Head(itens), success |-> TRUE])) :
                     copia \in {copiarDiretorio(nos, origem, destino, Null)}})

\* what a call that threw hands to its caller
Lancou == [success |-> FALSE, error |-> "lançou"]

\* sincronizarAmbiente(ambienteId): the disk as the call leaves it, whether
\* it threw, and the result it returns when it did not
sincronizarAmbiente(d, nos, ambienteId) ==
  LET a == FindIndex({n \in 1..Len(d.ambientes) : d.ambientes[n].id = ambienteId})
  IN IF a = 0
     THEN [nos |-> nos, lancou |-> FALSE,
           res |-> [success |-> FALSE, error |-> "Ambiente não encontrado"]]
     ELSE Um({Um({IF tudo.lancou THEN [nos |-> tudo.nos, lancou |-> TRUE, res |-> Lancou]
                  ELSE [nos |-> tudo.nos, lancou |-> FALSE,
                        res |-> [success |-> TRUE, resultados |-> tudo.resultados]] :
                    tudo \in {SincronizarCompartilhados(
                                bancos.nos, <<d.ambientes[a].path>>, compartilhados,
                                bancos.resultados)}}) :
                bancos \in {SincronizarBancos(d, nos, ambienteId,
                                              d.ambientes[a].bancosPermitidos, <<>>)}})

RECURSIVE SincronizarAtivos(_, _, _, _)
\* ambientes.forEach of sincronizarTodosAmbientes, from the i-th on
SincronizarAtivos(d, nos, i, resultados) ==
  IF i > Len(d.ambientes) THEN [nos |-> nos, resultados |-> resultados, lancou |-> FALSE]
  ELSE IF ~d.ambientes[i].ativo THEN SincronizarAtivos(d, nos, i + 1, resultados)
  ELSE Um({IF resultado.lancou
           THEN [nos |-> resultado.nos, resultados |-> resultados, lancou |-> TRUE]
           ELSE SincronizarAtivos(d, resultado.nos, i + 1,
                                  Append(resultados,
                                         [ambiente |-> d.ambientes[i].nome,
                                          porta |-> d.ambientes[i].porta,
                                          success |-> resultado.res.success])) :
             resultado \in {sincronizarAmbiente(d, nos, d.ambientes[i].id)}})

\* sincronizarTodosAmbientes()
sincronizarTodosAmbientes(d, nos) ==
  Um({IF tudo.lancou THEN [nos |-> tudo.nos, lancou |-> TRUE, res |-> Lancou]
      ELSE [nos |-> tudo.nos, lancou |-> FALSE,
            res |-> [success |-> TRUE, resultados |-> tudo.resultados]] :
        tudo \in {SincronizarAtivos(d, nos, 1, <<>>)}})

(***************************************************************************)
(* Batch job (routes/admin, POST /clt/lote and processarLote).  A record   *)
(* of the batch is [cpf, telefone, consulta]: cpf and telefone are strings *)
(* (sequences of characters) or Ausente when the field is missing or is    *)
(* not a string; consulta is what simularMultiplosBancos will answer for   *)
(* the record: "sucesso" (some integration succeeded), "semSucesso" (none  *)
(* did) or "excecao" (it throws).                                          *)
(***************************************************************************)
LIMITE_SIMULTANEOS == 10

Algarismos == {"0", "1", "2", "3", "4", "5", "6", "7", "8", "9"}

\* value.replace(/\D/g, '')
replaceNaoDigitos(texto) == SelectSeq(texto, LAMBDA c : c \in Algarismos)

\* whether value.replace exists
EhString(valor) == valor # Ausente

\* the try block after the await: counters and the pushed result
RegistrarResultado(l, item, temSucesso) ==
  [l EXCEPT !.progresso.processados = @ + 1,
            !.progresso.sucesso = IF temSucesso THEN @ + 1 ELSE @,
            !.progresso.erro = IF temSucesso THEN @ ELSE @ + 1,
            !.resultados = Append(@, [cpf |-> replaceNaoDigitos(item.cpf),
                                      sucesso |-> temSucesso,
                                      erro |-> IF temSucesso THEN Null
                                               ELSE "Todos os bancos falharam"])]

\* the catch block: the counters are raised, then item.cpf.replace is
\* evaluated for the result to push; it throws when cpf is not a string and
\* the record's promise is rejected
RegistrarErro(l, item) ==
  LET l1 == [l EXCEPT !.progresso.processados = @ + 1,
                      !.progresso.erro = @ + 1]
  IN IF EhString(item.cpf)
     THEN [lote |-> [l1 EXCEPT !.resultados =
                       Append(@, [cpf |-> replaceNaoDigitos(item.cpf),
                                  sucesso |-> FALSE,
                                  erro |-> "error.message"])],
           rejeitou |-> FALSE]
     ELSE [lote |-> l1, rejeitou |-> TRUE]

RECURSIVE DespacharOnda(_, _, _, _, _)
\* loteAtual.map(async item => ...): each record of dados[j..ate] runs to
\* its await (it is then in flight) or, when cpf or telefone is not a
\* string, through its catch block
DespacharOnda(l, j, ate, voo, rejeitou) ==
  IF j > ate THEN [lote |-> l, emVoo |-> voo, rejeitou |-> rejeitou]
  ELSE LET item == l.dados[j]
       IN IF EhString(item.cpf) /\ EhString(item.telefone)
          THEN DespacharOnda(l, j + 1, ate, voo \cup {j}, rejeitou)
          ELSE LET r == RegistrarErro(l, item)
               IN DespacharOnda(r.lote, j + 1, ate, voo, rejeitou \/ r.rejeitou)

RECURSIVE processarLote(_, _)
\* the for loop from index i on, up to the first wave that has to wait for
\* a lookup: Promise.all of a wave rejects as soon as one of its promises
\* is rejected, and processarLote then ends without setting the status
processarLote(l, i) ==
  IF i >= Len(l.dados)
  THEN [lote |-> [l EXCEPT !.status = "concluido"],
        emVoo |-> {},
        pc |-> [estado |-> "concluido", i |-> i]]
  ELSE LET ate == IF i + LIMITE_SIMULTANEOS < Len(l.dados)
                  THEN i + LIMITE_SIMULTANEOS ELSE Len(l.dados)
           r == DespacharOnda(l, i + 1, ate, {}, FALSE)
       IN IF r.rejeitou
          THEN [lote |-> r.lote, emVoo |-> r.emVoo,
                pc |-> [estado |-> "rejeitado", i |-> i]]
          ELSE IF r.emVoo # {}
          THEN [lote |-> r.lote, emVoo |-> r.emVoo,
                pc |-> [estado |-> "aguardando", i |-> i]]
          ELSE processarLote(r.lote, i + LIMITE_SIMULTANEOS)

(***************************************************************************)
(* Inputs of the environment operations.                                   *)
(***************************************************************************)
NomesEntrada == {"QA", NomeDetectado(5000)}
PortasEntrada == {4000, 5000}
BancosEntrada == {<<>>, <<"hubcredito">>}
DadosAmbienteEntrada ==
  {[ativo |-> FALSE], [nome |-> "QA"],
   [nome |-> NomeDetectado(5000), pipelineKentro |-> "", ativo |-> TRUE]}
RemocaoEntrada == {"removida", "inexistente", "erro"}

\* identifiers a caller can name: those of the records, and one of no record
IdsAmbiente(d) == {d.ambientes[i].id : i \in 1..Len(d.ambientes)} \cup {<<"ambiente", -1>>}

\* directory entries that can be found under BASE_PATH
EntradasDisco ==
  { [nome |-> PathDaPorta(5000), ehDiretorio |-> TRUE, subpastas |-> {"V8"}],
    [nome |-> PathDaPorta(5000), ehDiretorio |-> TRUE, subpastas |-> {}],
    [nome |-> NomePasta("rota-", <<0, 5, 0, 0, 0>>, ".producao"),
     ehDiretorio |-> TRUE, subpastas |-> {"V8", "hubcredito"}],
    [nome |-> PathDaPorta(7000), ehDiretorio |-> TRUE, subpastas |-> {"presençabank"}] }

RECURSIVE SeqsAte(_, _)
\* the sequences over S of length at most n
SeqsAte(S, n) ==
  IF n = 0 THEN {<<>>}
  ELSE LET menores == SeqsAte(S, n - 1)
       IN menores \cup {Append(s, x) : s \in menores, x \in S}

\* a directory holds no two entries of the same name
Listagens ==
  {l \in SeqsAte(EntradasDisco, MaxListagem) :
     \A i, j \in 1..Len(l) : i # j => l[i].nome # l[j].nome}

(***************************************************************************)
(* Actions: one per call of a store function.                              *)
(***************************************************************************)
\* What a call that loaded the document leaves behind: r.doc is the loaded
\* object as the call left it, r.grava whether the call handed it to
\* saveDatabase, gravou whether the writes made during the call succeed.
\* Without a file, loadDatabase first writes DB_SCHEMA as it then is, and
\* whatever the call changed in the loaded object it changed in DB_SCHEMA.
\* A write that succeeds replaces a content that could not be parsed.
GravarDoc(r, gravou) ==
  /\ db' = IF r.grava THEN saveDatabase(r.doc, gravou)
           ELSE IF ~temArquivo THEN saveDatabase(esquema, gravou)
           ELSE db
  /\ temArquivo' = (temArquivo \/ gravou)
  /\ esquema' = IF temArquivo /\ ~ilegivel THEN esquema ELSE r.doc
  /\ escrita' = IF ~r.grava THEN "nenhuma" ELSE IF gravou THEN "ok" ELSE "falhou"
  /\ ilegivel' = (ilegivel /\ ~(r.grava /\ gravou))

\* a store call made with no other request's handler under way
Gravar(r, gravou) == GravarDoc(r, gravou) /\ UNCHANGED pedidos

\* a call that loads the document and changes nothing in it
Ler(gravou) == Gravar([grava |-> FALSE, doc |-> loadDatabase], gravou)

\* whether a write made while loading succeeds: nothing is written when the
\* file exists
EscritasAoCarregar == IF temArquivo THEN {TRUE} ELSE BOOLEAN

\* a step that does not load the document
SemEscrita == escrita' = "nenhuma" /\ UNCHANGED <<temArquivo, esquema, ilegivel, pedidos>>

OutrosEstaveis == UNCHANGED <<envFile, validando, lote, emVoo, pcLote, disco>>

Tique ==
  /\ agora < MaxRelogio
  /\ agora' = agora + 1
  /\ ultimaOp' = [op |-> "tique"]
  /\ UNCHANGED db
  /\ SemEscrita
  /\ OutrosEstaveis

\* data/database.json is left, from outside the program, with a content
\* that cannot be read or parsed (a torn write, a hand edit)
CorromperArquivo ==
  /\ temArquivo
  /\ ~ilegivel
  /\ ilegivel' = TRUE
  /\ ultimaOp' = [op |-> "corromperArquivo"]
  /\ escrita' = "nenhuma"
  /\ UNCHANGED <<db, agora, temArquivo, esquema, pedidos>>
  /\ OutrosEstaveis

OpCreateAmbiente(nome, porta, bancos, gravou) ==
  \E r \in {createAmbiente(loadDatabase, nome, porta, bancos, agora, gravou)} :
     /\ Len(loadDatabase.ambientes) < MaxAmbientes
     /\ Gravar(r, gravou)
     /\ ultimaOp' = [op |-> "createAmbiente", porta |-> porta, res |-> r.res]
     /\ UNCHANGED agora
     /\ OutrosEstaveis

OpUpdateBancosPermitidos(id, bancos, gravou) ==
  \E r \in {updateBancosPermitidos(loadDatabase, id, bancos, gravou)} :
     /\ Gravar(r, gravou)
     /\ ultimaOp' = [op |-> "updateBancosPermitidos", id |-> id, bancos |-> bancos,
                     res |-> r.res]
     /\ UNCHANGED agora
     /\ OutrosEstaveis

OpUpdateAmbiente(id, dados, gravou) ==
  \E r \in {updateAmbiente(loadDatabase, id, dados, gravou)} :
     /\ Gravar(r, gravou)
     /\ ultimaOp' = [op |-> "updateAmbiente", res |-> r.res]
     /\ UNCHANGED agora
     /\ OutrosEstaveis

\* what the disk holds after the removal of pasta went as remocao says
DiscosAposRemocao(nos, arquivos, pasta, remocao) ==
  IF pasta = <<>> \/ remocao = "inexistente"
  THEN {[disco |-> nos, envFile |-> arquivos]}
  ELSE IF remocao = "removida"
  THEN {[disco |-> deletarPastaRecursiva(nos, pasta),
         envFile |-> {f \in arquivos : f.path # pasta[1]}]}
  ELSE {[disco |-> parcial, envFile |-> resto] :
          parcial \in RemocoesParciais(nos, pasta),
          resto \in {arquivos, {f \in arquivos : f.path # pasta[1]}}}

OpDeleteAmbiente(id, remocao, gravou) ==
  \E r \in {deleteAmbiente(loadDatabase, id, remocao, gravou)} :
  \E fim \in DiscosAposRemocao(disco, envFile, r.pasta, remocao) :
     /\ r.pasta # <<>> => (remocao = "inexistente" <=> ~existe(disco, r.pasta))
     /\ Gravar(r, gravou)
     /\ disco' = fim.disco
     /\ envFile' = fim.envFile
     /\ ultimaOp' = [op |-> "deleteAmbiente", id |-> id, res |-> r.res]
     /\ UNCHANGED <<agora, validando, lote, emVoo, pcLote>>

\* the route handler's call: the detector runs first, on what the disk holds;
\* inativos are the ports of the records that were inactive before the call
OpSincronizarAmbientesExistentes(listagem, leuBase, gravou) ==
  \E r \in {[detectados |-> detectarAmbientesExistentes(listagem, leuBase),
             doc |-> loadDatabase]} :
  \E s \in {sincronizarAmbientesExistentes(r.doc, r.detectados, agora, gravou)} :
     /\ Len(s.doc.ambientes) <= MaxAmbientes
     /\ Gravar(s, gravou)
     /\ ultimaOp' = [op |-> "sincronizarAmbientesExistentes",
                     detectados |-> r.detectados,
                     inativos |-> {r.doc.ambientes[n].porta :
                                     n \in {k \in 1..Len(r.doc.ambientes) :
                                              ~r.doc.ambientes[k].ativo}},
                     res |-> s.res]
     /\ UNCHANGED agora
     /\ OutrosEstaveis

(***************************************************************************)
(* Inputs and actions of the profile and login operations.                 *)
(***************************************************************************)
PermissoesEntrada == {[clt_lote |-> TRUE]}
DadosPerfilEntrada ==
  {[ativo |-> FALSE],
   [nome |-> "Operador", permissoes |-> [clt_lote |-> TRUE], ativo |-> TRUE]}
UsernamesEntrada == {<<" ", "A">>, <<"b">>, <<" ">>}
UsernamesLogin == {<<"a", " ">>, <<"B">>, <<>>}
SenhasEntrada == {"p", "q"}

IdsPerfil(d) == {d.perfis[i].id : i \in 1..Len(d.perfis)} \cup {<<"perfil", -1>>}
IdsLogin(d) == {d.logins[i].id : i \in 1..Len(d.logins)} \cup {<<"login", -1>>}

DadosLoginEntrada(d) ==
  {[ativo |-> FALSE]}
    \cup {[username |-> <<"b", " ">>, password |-> "q", ambienteId |-> a,
           perfilId |-> NullId, ativo |-> TRUE] : a \in IdsAmbiente(d)}

OpCreatePerfil(nome, permissoes, gravou) ==
  \E r \in {createPerfil(loadDatabase, nome, permissoes, agora, gravou)} :
     /\ Gravar(r, gravou)
     /\ ultimaOp' = [op |-> "createPerfil", res |-> r.res]
     /\ UNCHANGED agora
     /\ OutrosEstaveis

OpUpdatePerfil(id, dados, gravou) ==
  \E r \in {updatePerfil(loadDatabase, id, dados, gravou)} :
     /\ Gravar(r, gravou)
     /\ ultimaOp' = [op |-> "updatePerfil", res |-> r.res]
     /\ UNCHANGED agora
     /\ OutrosEstaveis

OpDeletePerfil(id, gravou) ==
  \E r \in {deletePerfil(loadDatabase, id, gravou)} :
     /\ Gravar(r, gravou)
     /\ ultimaOp' = [op |-> "deletePerfil", res |-> r.res]
     /\ UNCHANGED agora
     /\ OutrosEstaveis

OpCreateLogin(username, password, ambienteId, perfilId, gravou) ==
  \E r \in {createLogin(loadDatabase, username, password, ambienteId, perfilId, agora, gravou)} :
     /\ Len(loadDatabase.logins) < MaxLogins
     /\ Gravar(r, gravou)
     /\ ultimaOp' = [op |-> "createLogin", res |-> r.res]
     /\ UNCHANGED agora
     /\ OutrosEstaveis

OpUpdateLogin(id, dados, gravou) ==
  \E r \in {updateLogin(loadDatabase, id, dados, gravou)} :
     /\ Gravar(r, gravou)
     /\ ultimaOp' = [op |-> "updateLogin", res |-> r.res]
     /\ UNCHANGED agora
     /\ OutrosEstaveis

OpDeleteLogin(id, gravou) ==
  \E r \in {deleteLogin(loadDatabase, id, gravou)} :
     /\ Gravar(r, gravou)
     /\ ultimaOp' = [op |-> "deleteLogin", res |-> r.res]
     /\ UNCHANGED agora
     /\ OutrosEstaveis

\* authenticateLogin loads the document and never saves it
OpAuthenticateLogin(username, password) ==
  /\ ultimaOp' = [op |-> "authenticateLogin", username |-> username,
                  password |-> password,
                  res |-> authenticateLogin(loadDatabase, username, password)]
  /\ \E gravou \in EscritasAoCarregar : Ler(gravou)
  /\ UNCHANGED agora
  /\ OutrosEstaveis

(***************************************************************************)
(* Inputs and actions of the credential operations.                        *)
(***************************************************************************)
BancoIdsEntrada == {"v8", "hubcredito"}
CredenciaisEntrada ==
  {[login |-> <<"x">>, senha |-> <<"y">>],
   [login |-> <<"x", " ">>, senha |-> <<"y", "=", "z">>],
   [login |-> <<>>, senha |-> <<"z">>]}
ValidacaoEntrada == {"sucesso", "falha", "excecao"}

\* .env contents put on disk by hand or by a deployment
ConteudosEnv ==
  {<<"V8_USERNAME", "=", "o", "\n", "# c", "\n", "V8_USERNAME", "=", "p", "\n",
     "V8_PASSWORD", "=", "o">>,
   <<"V8_USR", "=", "o", "\n", "HUBCREDITO_USR", "=", "o", "\n">>}

\* POST /ambientes: the store call and, when it succeeded, the directory
RotaCriarAmbiente(nome, porta, bancos, gravou) ==
  \E r \in {createAmbiente(loadDatabase, nome, porta, bancos, agora, gravou)} :
     /\ Len(loadDatabase.ambientes) < MaxAmbientes
     /\ Gravar(r, gravou)
     /\ envFile' = IF r.res.success THEN criarEstruturaAmbiente(envFile, porta)
                   ELSE envFile
     /\ \E e \in {IF r.res.success THEN criarEstruturaPastas(disco, porta, bancos)
                   ELSE [nos |-> disco, lancou |-> FALSE]} :
          /\ disco' = e.nos
          /\ ultimaOp' = [op |-> "createAmbiente", porta |-> porta,
                          res |-> IF e.lancou
                                  THEN [success |-> FALSE,
                                        error |-> "Erro ao criar ambiente"]
                                  ELSE r.res]
     /\ UNCHANGED <<agora, validando, lote, emVoo, pcLote>>

\* the .env of a directory is written from outside the program
EditarEnv(path, conteudo) ==
  /\ envFile' = writeFileSync(envFile, path, conteudo)
  /\ disco' = mkdirSync(disco, <<path>>)
  /\ ultimaOp' = [op |-> "editarEnv"]
  /\ UNCHANGED <<db, agora, validando, lote, emVoo, pcLote>>
  /\ SemEscrita

\* atualizarCredenciaisBanco up to its first await, or to its end when
\* nothing is awaited
OpAtualizarCredenciaisBanco(ambienteId, bancoId, credenciais, validarToken) ==
  LET d == loadDatabase
      erro == ChecarAmbienteEBanco(d, ambienteId, bancoId)
      ambiente == d.ambientes[FindIndex({n \in 1..Len(d.ambientes) :
                                           d.ambientes[n].id = ambienteId})]
      chamada == [ambienteId |-> ambienteId, ambiente |-> ambiente,
                  bancoId |-> bancoId, credenciais |-> credenciais]
  IN /\ UNCHANGED <<agora, lote, emVoo, pcLote, disco>>
     /\ \E gravou \in EscritasAoCarregar : Ler(gravou)
     /\ IF erro # ""
        THEN /\ ultimaOp' = [op |-> "atualizarCredenciaisBanco",
                             ambienteId |-> ambienteId, bancoId |-> bancoId,
                             credenciais |-> credenciais,
                             res |-> [success |-> FALSE, error |-> erro]]
             /\ UNCHANGED <<envFile, validando>>
        ELSE IF PrecisaValidar(credenciais, validarToken)
        THEN /\ Cardinality(validando) < MaxEmValidacao
             /\ validando' = validando \cup {chamada}
             /\ ultimaOp' = [op |-> "validarTokenBanco", ambienteId |-> ambienteId,
                             bancoId |-> bancoId, credenciais |-> credenciais]
             /\ UNCHANGED envFile
        ELSE \E r \in {atualizarCredenciaisBanco(envFile, ambiente, bancoId,
                                                 credenciais, Null)} :
               /\ envFile' = r.arquivos
               /\ ultimaOp' = [op |-> "atualizarCredenciaisBanco",
                               ambienteId |-> ambienteId, bancoId |-> bancoId,
                               credenciais |-> credenciais, res |-> r.res]
               /\ UNCHANGED validando

\* ValidacaoRetorna were the environment and the permission looked up again
\* after the await
ValidacaoRetorna_ChecaDeNovo(chamada, validacao) ==
  /\ chamada \in validando
  /\ validando' = validando \ {chamada}
  /\ UNCHANGED <<db, agora, lote, emVoo, pcLote, disco>>
  /\ SemEscrita
  /\ IF ChecarAmbienteEBanco(loadDatabase, chamada.ambienteId, chamada.bancoId) # ""
     THEN /\ ultimaOp' = [op |-> "atualizarCredenciaisBanco",
                          ambienteId |-> chamada.ambienteId,
                          bancoId |-> chamada.bancoId,
                          credenciais |-> chamada.credenciais,
                          res |-> [success |-> FALSE,
                                   error |-> ChecarAmbienteEBanco(loadDatabase,
                                               chamada.ambienteId, chamada.bancoId)]]
          /\ UNCHANGED envFile
     ELSE IF validacao = "falha"
     THEN /\ ultimaOp' = [op |-> "atualizarCredenciaisBanco",
                          ambienteId |-> chamada.ambienteId,
                          bancoId |-> chamada.bancoId,
                          credenciais |-> chamada.credenciais,
                          res |-> [success |-> FALSE,
                                   error |-> "Validação de token falhou"]]
          /\ UNCHANGED envFile
     ELSE \E r \in {atualizarCredenciaisBanco(envFile, chamada.ambiente, chamada.bancoId,
                                              chamada.credenciais, validacao)} :
            /\ envFile' = r.arquivos
            /\ ultimaOp' = [op |-> "atualizarCredenciaisBanco",
                            ambienteId |-> chamada.ambienteId,
                            bancoId |-> chamada.bancoId,
                            credenciais |-> chamada.credenciais, res |-> r.res]

\* validarTokenBanco settles: atualizarCredenciaisBanco runs to its end.
\* validacao is "sucesso", "falha" (it returned success: false) or "excecao"
\* (it threw, and the update goes on)
ValidacaoRetorna(chamada, validacao) ==
  /\ chamada \in validando
  /\ validando' = validando \ {chamada}
  /\ UNCHANGED <<db, agora, lote, emVoo, pcLote, disco>>
  /\ SemEscrita
  /\ IF validacao = "falha"
     THEN /\ ultimaOp' = [op |-> "atualizarCredenciaisBanco",
                          ambienteId |-> chamada.ambienteId,
                          bancoId |-> chamada.bancoId,
                          credenciais |-> chamada.credenciais,
                          res |-> [success |-> FALSE,
                                   error |-> "Validação de token falhou"]]
          /\ UNCHANGED envFile
     ELSE \E r \in {atualizarCredenciaisBanco(envFile, chamada.ambiente, chamada.bancoId,
                                              chamada.credenciais, validacao)} :
            /\ envFile' = r.arquivos
            /\ ultimaOp' = [op |-> "atualizarCredenciaisBanco",
                            ambienteId |-> chamada.ambienteId,
                            bancoId |-> chamada.bancoId,
                            credenciais |-> chamada.credenciais, res |-> r.res]

\* sucessoLido were the call awaited: the route would read the result
sucessoLido_ComAwait(resultado) == resultado.estado = "cumprida" /\ resultado.sucesso

\* resultado.success as the handler of PUT /bancos/:bancoId/credenciais
\* reads it: resultado is the Promise the async function returned, not its
\* value, and a Promise has no such property (undefined)
sucessoLido(resultado) == FALSE

\* the Promise atualizarCredenciaisBanco has returned when it got no further
\* than its await
Pendente == [estado |-> "pendente", sucesso |-> FALSE]

\* a response of the route; chamou is whether atualizarCredenciaisBanco was
\* called, resultado the Promise it returned
RespostaPut(status, chamou, resultado) ==
  [status |-> status, chamou |-> chamou, resultado |-> resultado]

\* PUT /bancos/:bancoId/credenciais behind requireAmbienteAuth.  certas is
\* whether the x-username and x-password headers are those of the
\* environment; login and senha come from the body.
RotaPutCredenciais(ambienteId, certas, bancoId, credenciais) ==
  LET d == loadDatabase
      a == FindIndex({n \in 1..Len(d.ambientes) : d.ambientes[n].id = ambienteId})
      ambiente == d.ambientes[a]
      chamada == [ambienteId |-> ambienteId, ambiente |-> ambiente,
                  bancoId |-> bancoId, credenciais |-> credenciais]
      pedido == [op |-> "PUT /bancos/:bancoId/credenciais", ambienteId |-> ambienteId,
                 certas |-> certas, bancoId |-> bancoId, credenciais |-> credenciais]
      Responder(r) == ultimaOp' = pedido @@ r
  IN /\ UNCHANGED <<agora, lote, emVoo, pcLote, disco>>
     /\ \E gravou \in EscritasAoCarregar : Ler(gravou)
     /\ IF a = 0 \/ ~certas
        THEN /\ Responder(RespostaPut(401, FALSE, Pendente))
             /\ UNCHANGED <<envFile, validando>>
        ELSE IF ~Includes(ambiente.bancosPermitidos, bancoId)
        THEN /\ Responder(RespostaPut(403, FALSE, Pendente))
             /\ UNCHANGED <<envFile, validando>>
        ELSE IF credenciais.login = <<>> /\ credenciais.senha = <<>>
        THEN /\ Responder(RespostaPut(400, FALSE, Pendente))
             /\ UNCHANGED <<envFile, validando>>
        ELSE IF PrecisaValidar(credenciais, TRUE)
        THEN /\ Cardinality(validando) < MaxEmValidacao
             /\ validando' = validando \cup {chamada}
             /\ Responder(RespostaPut(IF sucessoLido(Pendente) THEN 200 ELSE 400,
                                      TRUE, Pendente))
             /\ UNCHANGED envFile
        ELSE \E r \in {atualizarCredenciaisBanco(envFile, ambiente, bancoId,
                                                 credenciais, Null)} :
             \E resultado \in {[estado |-> "cumprida", sucesso |-> r.res.success]} :
               /\ envFile' = r.arquivos
               /\ Responder(RespostaPut(IF sucessoLido(resultado) THEN 200 ELSE 400,
                                        TRUE, resultado))
               /\ UNCHANGED validando

OpObterCredenciaisBanco(ambienteId, bancoId) ==
  /\ ultimaOp' = [op |-> "obterCredenciaisBanco", ambienteId |-> ambienteId,
                  bancoId |-> bancoId,
                  res |-> obterCredenciaisBanco(loadDatabase, envFile, ambienteId, bancoId)]
  /\ \E gravou \in EscritasAoCarregar : Ler(gravou)
  /\ UNCHANGED <<agora, envFile, validando, lote, emVoo, pcLote, disco>>

(***************************************************************************)
(* Inputs and actions of the directory synchronizer.                       *)
(***************************************************************************)
Dir(caminho) == [caminho |-> caminho, ehDiretorio |-> TRUE, conteudo |-> <<>>]
Arquivo(caminho, conteudo) ==
  [caminho |-> caminho, ehDiretorio |-> FALSE, conteudo |-> conteudo]

\* a config.env of the test environment: keys of three integrations
ConfigEnvTeste ==
  <<"# c", "\n", "V8_USERNAME", "=", "o", "\n", "HUBCREDITO_USR", "=", "o", "\n",
    "PORT", "=", "4000", "\n", "OUTRA", "=", "x">>

\* what the test environment holds of one integration or shared directory
ArvoreTeste(pasta) ==
  LET raiz == Juntar(AMBIENTE_TESTE, pasta)
  IN {Dir(AMBIENTE_TESTE), Dir(raiz), Arquivo(Juntar(raiz, "index.js"), <<pasta>>)}
       \cup (IF pasta = "V8"
             THEN {Dir(Juntar(raiz, "config")),
                   Arquivo(Juntar(Juntar(raiz, "config"), "config.env"), ConfigEnvTeste),
                   Dir(Juntar(raiz, "node_modules")),
                   Arquivo(Juntar(Juntar(raiz, "node_modules"), "a.js"), <<"m">>),
                   Dir(Juntar(raiz, "logs")),
                   Dir(Juntar(raiz, ".git")),
                   Arquivo(Juntar(raiz, ".env"), <<"PORT", "=", "4000">>),
                   Dir(Juntar(raiz, "src")),
                   Dir(Juntar(Juntar(raiz, "src"), "config")),
                   Arquivo(Juntar(Juntar(Juntar(raiz, "src"), "config"), "config.env"),
                           ConfigEnvTeste)}
             ELSE IF pasta = "shared" THEN {Dir(Juntar(raiz, "config"))}
             ELSE {})

PastasTeste == {{"V8", "shared"}, {"hubcredito", "cache-centralizado"}}

\* the test environment is deployed, some directories at a time, from
\* outside the program
ImplantarTeste(pastas) ==
  /\ \A pasta \in pastas : ~existe(disco, Juntar(AMBIENTE_TESTE, pasta))
  /\ disco' = disco \cup UNION {ArvoreTeste(pasta) : pasta \in pastas}
  /\ ultimaOp' = [op |-> "implantar"]
  /\ UNCHANGED <<db, agora, envFile, validando, lote, emVoo, pcLote>>
  /\ SemEscrita

\* what the services of an environment, or a hand, leave in its directory:
\* a file where the test environment has a directory (item "shared"), the
\* log and the installed modules of a running integration (item "V8"), a
\* file where it has an empty directory (item "config"), a directory where
\* it has a file (any other item)
Sujeira(pasta, item) ==
  IF item = "shared"
  THEN {Dir(<<pasta>>), Arquivo(<<pasta, "shared">>, <<"x">>)}
  ELSE IF item = "config"
  THEN {Dir(<<pasta>>), Dir(<<pasta, "shared">>),
        Arquivo(<<pasta, "shared", "config">>, <<"x">>)}
  ELSE IF item = "V8"
  THEN {Dir(<<pasta>>), Dir(<<pasta, item>>), Dir(<<pasta, item, "logs">>),
        Arquivo(<<pasta, item, "logs", "a.js">>, <<"l">>),
        Dir(<<pasta, item, "node_modules">>),
        Arquivo(<<pasta, item, "index.js">>, <<"V8", "0">>)}
  ELSE {Dir(<<pasta>>), Dir(<<pasta, item>>), Dir(<<pasta, item, "index.js">>)}

Sujar(sujeira) ==
  /\ \A n \in sujeira : ~existe(disco, n.caminho) \/ n \in disco
  /\ ~(sujeira \subseteq disco)
  /\ disco' = disco \cup sujeira
  /\ ultimaOp' = [op |-> "sujar"]
  /\ UNCHANGED <<db, agora, envFile, validando, lote, emVoo, pcLote>>
  /\ SemEscrita

\* the lines a config.env is made of
LinhasConfigEnv ==
  {<<"V8_USERNAME", "=", "o">>, <<" ", "V8_PASSWORD", "=", "o", " ">>,
   <<"V8_API_URL", "=", "u">>, <<"HUBCREDITO_USR", "=", "o">>,
   <<"PRECENÇABANK_LOGIN", "=", "o">>, <<"PORT", "=", "4000">>,
   <<"LOG_LEVEL", "=", "d">>, <<"OUTRA", "=", "x">>, <<"# c">>, <<" ">>, <<>>}

MaxLinhas == 2   \* cap on the number of lines of a config.env written from outside

ConteudosConfigEnv ==
  {Join(linhas, "\n") : linhas \in UNION {[1..n -> LinhasConfigEnv] : n \in 1..MaxLinhas}}

\* the config.env of an integration is written from outside the program
EscreverConfigEnv(bancoPath, conteudo) ==
  LET configEnvPath == Juntar(Juntar(bancoPath, "config"), "config.env")
  IN /\ disco' = {n \in mkdirSync(disco, Juntar(bancoPath, "config")) :
                    n.caminho # configEnvPath}
                  \cup {Arquivo(configEnvPath, conteudo)}
     /\ ultimaOp' = [op |-> "escreverConfigEnv"]
     /\ UNCHANGED <<db, agora, envFile, validando, lote, emVoo, pcLote>>
     /\ SemEscrita

\* a call of limparConfigEnvBanco(bancoPath, bancoId); the record of the
\* call says how many calls with these arguments were made in a row (1, or
\* 2 for more) and what the file held before the first of them
OpLimparConfigEnvBanco(bancoPath, bancoId) ==
  LET configEnvPath == Juntar(Juntar(bancoPath, "config"), "config.env")
      repetida == /\ ultimaOp.op = "limparConfigEnvBanco"
                  /\ ultimaOp.bancoPath = bancoPath
                  /\ ultimaOp.bancoId = bancoId
  IN /\ existe(disco, configEnvPath)
     /\ disco' = limparConfigEnvBanco(disco, bancoPath, bancoId)
     /\ ultimaOp' = [op |-> "limparConfigEnvBanco", bancoPath |-> bancoPath,
                     bancoId |-> bancoId,
                     vezes |-> IF repetida THEN 2 ELSE 1,
                     original |-> IF repetida THEN ultimaOp.original
                                  ELSE No(disco, configEnvPath).conteudo]
     /\ UNCHANGED <<db, agora, envFile, validando, lote, emVoo, pcLote>>
     /\ SemEscrita

\* a call of copiarDiretorio(origem, destino, bancoId)
OpCopiarDiretorio(origem, destino, bancoId) ==
  \E r \in {copiarDiretorio(disco, origem, destino, bancoId)} :
     /\ disco' = r.nos
     /\ ultimaOp' = [op |-> "copiarDiretorio", origem |-> origem, destino |-> destino,
                     bancoId |-> bancoId, res |-> r.res]
     /\ UNCHANGED <<db, agora, envFile, validando, lote, emVoo, pcLote>>
     /\ SemEscrita

OpSincronizarBanco(ambienteId, bancoId) ==
  \E r \in {sincronizarBanco(loadDatabase, disco, ambienteId, bancoId)} :
     /\ disco' = r.nos
     /\ ultimaOp' = [op |-> "sincronizarBanco", ambienteId |-> ambienteId,
                     bancoId |-> bancoId, lancou |-> FALSE, res |-> r.res]
     /\ \E gravou \in EscritasAoCarregar : Ler(gravou)
     /\ UNCHANGED <<agora, envFile, validando, lote, emVoo, pcLote>>

OpSincronizarAmbiente(ambienteId) ==
  \E r \in {sincronizarAmbiente(loadDatabase, disco, ambienteId)} :
     /\ disco' = r.nos
     /\ ultimaOp' = [op |-> "sincronizarAmbiente", ambienteId |-> ambienteId,
                     lancou |-> r.lancou, res |-> r.res]
     /\ \E gravou \in EscritasAoCarregar : Ler(gravou)
     /\ UNCHANGED <<agora, envFile, validando, lote, emVoo, pcLote>>

OpSincronizarTodosAmbientes ==
  \E r \in {sincronizarTodosAmbientes(loadDatabase, disco)} :
     /\ disco' = r.nos
     /\ ultimaOp' = [op |-> "sincronizarTodosAmbientes", lancou |-> r.lancou,
                     res |-> r.res]
     /\ \E gravou \in EscritasAoCarregar : Ler(gravou)
     /\ UNCHANGED <<agora, envFile, validando, lote, emVoo, pcLote>>

(***************************************************************************)
(* Inputs and actions of the batch job.                                    *)
(***************************************************************************)
ItemOk == [cpf |-> <<"1", ".", "2">>, telefone |-> <<"9">>, consulta |-> "sucesso"]
ItemSemSucesso == [ItemOk EXCEPT !.consulta = "semSucesso"]
ItemExcecao == [ItemOk EXCEPT !.consulta = "excecao"]
ItemSemTelefone == [ItemOk EXCEPT !.telefone = Ausente]
ItemSemCpf == [ItemOk EXCEPT !.cpf = Ausente]

Repetir(item, n) == [j \in 1..n |-> item]

\* req.body.dados: empty, shorter than a wave, a wave, more than a wave,
\* several waves, and lists with a record that is not as the others
DadosEntrada ==
  {<<>>,
   <<ItemOk>>,
   Repetir(ItemOk, LIMITE_SIMULTANEOS),
   Repetir(ItemOk, LIMITE_SIMULTANEOS + 1),
   Repetir(ItemOk, MaxOndas * LIMITE_SIMULTANEOS + 1),
   <<ItemSemTelefone, ItemSemSucesso, ItemExcecao>>,
   <<ItemSemTelefone>> \o Repetir(ItemOk, LIMITE_SIMULTANEOS),
   <<ItemSemCpf>>,
   <<ItemOk, ItemSemCpf, ItemOk>> \o Repetir(ItemOk, LIMITE_SIMULTANEOS),
   Repetir(ItemOk, LIMITE_SIMULTANEOS) \o <<ItemSemCpf, ItemOk>>}

BancosLoteEntrada == {<<>>, <<"v8">>}

\* POST /clt/lote: the job is created and processarLote runs up to its
\* first wait
RotaCltLote(dados, bancos) ==
  /\ lote.status = "nenhum"
  /\ UNCHANGED <<db, agora, envFile, validando, disco>>
  /\ SemEscrita
  /\ IF dados = <<>> \/ bancos = <<>>
     THEN /\ ultimaOp' = [op |-> "POST /clt/lote", res |-> [success |-> FALSE]]
          /\ UNCHANGED <<lote, emVoo, pcLote>>
     ELSE \E r \in {processarLote([status |-> "processando",
                                   dados |-> dados,
                                   bancos |-> bancos,
                                   progresso |-> [total |-> Len(dados), processados |-> 0,
                                                  sucesso |-> 0, erro |-> 0],
                                   resultados |-> <<>>], 0)} :
            /\ lote' = r.lote
            /\ emVoo' = r.emVoo
            /\ pcLote' = r.pc
            /\ ultimaOp' = [op |-> "POST /clt/lote", res |-> [success |-> TRUE]]

\* the lookup of record j settles: the rest of its async function runs,
\* and, when it was the last of its wave, processarLote goes on
ConsultaRetorna(j) ==
  /\ j \in emVoo
  /\ UNCHANGED <<db, agora, envFile, validando, disco>>
  /\ SemEscrita
  /\ ultimaOp' = [op |-> "simularMultiplosBancos"]
  /\ LET item == lote.dados[j]
         r == IF item.consulta = "excecao" THEN RegistrarErro(lote, item)
              ELSE [lote |-> RegistrarResultado(lote, item, item.consulta = "sucesso"),
                    rejeitou |-> FALSE]
         voo == emVoo \ {j}
     IN IF pcLote.estado = "aguardando" /\ r.rejeitou
        THEN /\ lote' = r.lote
             /\ emVoo' = voo
             /\ pcLote' = [pcLote EXCEPT !.estado = "rejeitado"]
        ELSE IF pcLote.estado = "aguardando" /\ voo = {}
        THEN \E c \in {processarLote(r.lote, pcLote.i + LIMITE_SIMULTANEOS)} :
               /\ lote' = c.lote
               /\ emVoo' = c.emVoo
               /\ pcLote' = c.pc
        ELSE /\ lote' = r.lote
             /\ emVoo' = voo
             /\ UNCHANGED pcLote

(***************************************************************************)
(* Requests served at once.  The server is one Node process: a handler     *)
(* runs from one await to the next before any other handler runs.  A store *)
(* function awaits nothing, so its loadDatabase and its saveDatabase fall  *)
(* in one such stretch.  The load and the write are separate steps here;   *)
(* PodeCorrer is what the event loop allows.                               *)
(***************************************************************************)
MaxPedidos == 2   \* cap on the requests received and not yet answered

\* PodeCorrer were the load awaited (fs.promises.readFile): another handler
\* may run between the load and the write
PodeCorrer_ComAwait(pedido) == TRUE

\* whether the handler of the request may start its store call: no other
\* handler stands between its load and its write
PodeCorrer(pedido) ==
  \A q \in pedidos : q.pedido # pedido => q.pc # "carregou"

Pendentes == {q \in pedidos : q.pc # "respondeu"}

\* a create-environment request arrives while no request of the burst has
\* been answered; doc is the document its store call loaded, once it has,
\* and criou whether the response is a success
ReceberPedido(pedido, nome, porta) ==
  /\ Cardinality(pedidos) < MaxPedidos
  /\ Pendentes = pedidos
  /\ \A q \in pedidos : q.pedido # pedido
  /\ Len(loadDatabase.ambientes) + Cardinality(pedidos) < MaxAmbientes
  /\ pedidos' = pedidos \cup {[pedido |-> pedido, nome |-> nome, porta |-> porta,
                               pc |-> "recebido", doc |-> DB_SCHEMA,
                               criou |-> FALSE]}
  /\ ultimaOp' = [op |-> "pedido", pedido |-> pedido]
  /\ escrita' = "nenhuma"
  /\ UNCHANGED <<db, agora, temArquivo, esquema, ilegivel>>
  /\ OutrosEstaveis

\* const db = loadDatabase() of createAmbiente
CarregarPedido(p, gravou) ==
  /\ p.pc = "recebido"
  /\ PodeCorrer(p.pedido)
  /\ GravarDoc([grava |-> FALSE, doc |-> loadDatabase], gravou)
  /\ pedidos' = (pedidos \ {p}) \cup {[p EXCEPT !.pc = "carregou", !.doc = loadDatabase]}
  /\ ultimaOp' = [op |-> "loadDatabase", pedido |-> p.pedido]
  /\ UNCHANGED agora
  /\ OutrosEstaveis

\* the rest of createAmbiente, from the port check to the return
ConcluirPedido(p, gravou) ==
  /\ p.pc = "carregou"
  /\ \E r \in {createAmbiente(p.doc, p.nome, p.porta, <<>>, agora, gravou)} :
       /\ GravarDoc(r, gravou)
       /\ pedidos' = (pedidos \ {p}) \cup {[p EXCEPT !.pc = "respondeu", !.doc = r.doc,
                                                         !.criou = r.res.success]}
       /\ ultimaOp' = [op |-> "createAmbiente", porta |-> p.porta, res |-> r.res,
                       pedido |-> p.pedido]
  /\ UNCHANGED agora
  /\ OutrosEstaveis

\* every request of the burst has its response
FimDosPedidos ==
  /\ pedidos # {}
  /\ Pendentes = {}
  /\ pedidos' = {}
  /\ ultimaOp' = [op |-> "fimDosPedidos"]
  /\ escrita' = "nenhuma"
  /\ UNCHANGED <<db, agora, temArquivo, esquema, ilegivel>>
  /\ OutrosEstaveis

Init ==
  /\ db = DB_SCHEMA
  /\ agora = 0
  /\ ultimaOp = [op |-> "inicio"]
  /\ envFile = {}
  /\ validando = {}
  /\ lote = [status |-> "nenhum"]
  /\ emVoo = {}
  /\ pcLote = [estado |-> "ocioso", i |-> 0]
  /\ escrita = "nenhuma"
  /\ temArquivo = TRUE
  /\ esquema = DB_SCHEMA
  /\ disco = {}
  /\ ilegivel = FALSE
  /\ pedidos = {}

\* the store calls on environments, writes to the document succeeding
Next ==
  \/ Tique
  \/ \E nome \in NomesEntrada, porta \in PortasEntrada, bancos \in BancosEntrada :
       OpCreateAmbiente(nome, porta, bancos, TRUE)
  \/ \E id \in IdsAmbiente(db), bancos \in BancosEntrada :
       OpUpdateBancosPermitidos(id, bancos, TRUE)
  \/ \E id \in IdsAmbiente(db), dados \in DadosAmbienteEntrada :
       OpUpdateAmbiente(id, dados, TRUE)
  \/ \E id \in IdsAmbiente(db), remocao \in RemocaoEntrada :
       OpDeleteAmbiente(id, remocao, TRUE)
  \/ \E listagem \in Listagens : OpSincronizarAmbientesExistentes(listagem, TRUE, TRUE)
  \/ OpSincronizarAmbientesExistentes(<<>>, FALSE, TRUE)

Spec == Init /\ [][Next]_vars

\* the store calls a login's authentication depends on, one environment
NextLogins ==
  \/ Tique
  \/ OpCreateAmbiente("QA", 5000, <<>>, TRUE)
  \/ \E id \in IdsAmbiente(db) : OpUpdateAmbiente(id, [ativo |-> FALSE], TRUE)
  \/ \E id \in IdsAmbiente(db) : OpDeleteAmbiente(id, "inexistente", TRUE)
  \/ \E permissoes \in PermissoesEntrada : OpCreatePerfil("Operador", permissoes, TRUE)
  \/ \E id \in IdsPerfil(db), dados \in DadosPerfilEntrada : OpUpdatePerfil(id, dados, TRUE)
  \/ \E id \in IdsPerfil(db) : OpDeletePerfil(id, TRUE)
  \/ \E username \in UsernamesEntrada, ambienteId \in IdsAmbiente(db),
        perfilId \in IdsPerfil(db) \cup {NullId} :
       OpCreateLogin(username, "p", ambienteId, perfilId, TRUE)
  \/ \E id \in IdsLogin(db), dados \in DadosLoginEntrada(db) : OpUpdateLogin(id, dados, TRUE)
  \/ \E id \in IdsLogin(db) : OpDeleteLogin(id, TRUE)
  \/ \E username \in UsernamesLogin, password \in SenhasEntrada :
       OpAuthenticateLogin(username, password)

SpecLogins == Init /\ [][NextLogins]_vars

\* environments created and deleted under the logins bound to them
NextVinculo ==
  \/ Tique
  \/ \E nome \in NomesEntrada, porta \in PortasEntrada :
       OpCreateAmbiente(nome, porta, <<>>, TRUE)
  \/ \E id \in IdsAmbiente(db) : OpDeleteAmbiente(id, "inexistente", TRUE)
  \/ \E ambienteId \in IdsAmbiente(db) : OpCreateLogin(<<"b">>, "p", ambienteId, NullId, TRUE)
  \/ \E id \in IdsLogin(db),
        dados \in {[ativo |-> FALSE]} \cup {[ambienteId |-> a] : a \in IdsAmbiente(db)} :
       OpUpdateLogin(id, dados, TRUE)
  \/ \E password \in SenhasEntrada : OpAuthenticateLogin(<<"B">>, password)

SpecVinculo == Init /\ [][NextVinculo]_vars

\* the credential calls on one environment
NextCredenciais ==
  \/ RotaCriarAmbiente("QA", 5000, <<"v8">>, TRUE)
  \/ \E id \in IdsAmbiente(db), bancos \in {<<>>, <<"v8">>} :
       OpUpdateBancosPermitidos(id, bancos, TRUE)
  \/ \E conteudo \in ConteudosEnv : EditarEnv(PathDaPorta(5000), conteudo)
  \/ \E id \in IdsAmbiente(db), bancoId \in BancoIdsEntrada,
        credenciais \in CredenciaisEntrada, validarToken \in BOOLEAN :
       OpAtualizarCredenciaisBanco(id, bancoId, credenciais, validarToken)
  \/ \E chamada \in validando, validacao \in ValidacaoEntrada :
       ValidacaoRetorna(chamada, validacao)
  \/ \E id \in IdsAmbiente(db), bancoId \in BancoIdsEntrada :
       OpObterCredenciaisBanco(id, bancoId)

SpecCredenciais == Init /\ [][NextCredenciais]_vars

\* the credential route of an environment, its validations settling later
NextRota ==
  \/ RotaCriarAmbiente("QA", 5000, <<"v8">>, TRUE)
  \/ \E id \in IdsAmbiente(db), bancos \in {<<>>, <<"v8">>} :
       OpUpdateBancosPermitidos(id, bancos, TRUE)
  \/ \E id \in IdsAmbiente(db), certas \in BOOLEAN, bancoId \in BancoIdsEntrada,
        credenciais \in CredenciaisEntrada \cup {[login |-> <<>>, senha |-> <<>>]} :
       RotaPutCredenciais(id, certas, bancoId, credenciais)
  \/ \E chamada \in validando, validacao \in ValidacaoEntrada :
       ValidacaoRetorna(chamada, validacao)

SpecRota == Init /\ [][NextRota]_vars

\* credentials that are validated, and credentials that are written at once
CredenciaisConcorrentes ==
  {[login |-> <<"x">>, senha |-> <<"y">>], [login |-> <<>>, senha |-> <<"z">>]}

\* update-credential calls of one environment awaiting their validation at
\* once, while its permitted integrations change
NextConcorrentes ==
  \/ RotaCriarAmbiente("QA", 5000, <<"v8", "hubcredito">>, TRUE)
  \/ \E id \in IdsAmbiente(db), bancos \in {<<>>, <<"hubcredito">>, <<"v8", "hubcredito">>} :
       OpUpdateBancosPermitidos(id, bancos, TRUE)
  \/ \E id \in IdsAmbiente(db), bancoId \in BancoIdsEntrada,
        credenciais \in CredenciaisConcorrentes :
       OpAtualizarCredenciaisBanco(id, bancoId, credenciais, TRUE)
  \/ \E chamada \in validando, validacao \in ValidacaoEntrada :
       ValidacaoRetorna(chamada, validacao)

SpecConcorrentes == Init /\ [][NextConcorrentes]_vars

\* one batch job from its creation on
NextLote ==
  \/ \E dados \in DadosEntrada, bancos \in BancosLoteEntrada : RotaCltLote(dados, bancos)
  \/ \E j \in emVoo : ConsultaRetorna(j)

SpecLote == Init /\ [][NextLote]_vars

\* a new installation: no data/database.json yet
InitNova ==
  /\ db = DB_SCHEMA
  /\ agora = 0
  /\ ultimaOp = [op |-> "inicio"]
  /\ envFile = {}
  /\ validando = {}
  /\ lote = [status |-> "nenhum"]
  /\ emVoo = {}
  /\ pcLote = [estado |-> "ocioso", i |-> 0]
  /\ escrita = "nenhuma"
  /\ temArquivo = FALSE
  /\ esquema = DB_SCHEMA
  /\ disco = {}
  /\ ilegivel = FALSE
  /\ pedidos = {}

\* every mutating store call, on a disk whose writes may fail
NextStore ==
  \/ \E nome \in NomesEntrada, porta \in PortasEntrada, gravou \in BOOLEAN :
       OpCreateAmbiente(nome, porta, <<>>, gravou)
  \/ \E id \in IdsAmbiente(loadDatabase), gravou \in BOOLEAN :
       OpUpdateBancosPermitidos(id, <<"hubcredito">>, gravou)
  \/ \E id \in IdsAmbiente(loadDatabase), gravou \in BOOLEAN :
       OpUpdateAmbiente(id, [nome |-> "QA", ativo |-> FALSE], gravou)
  \/ \E id \in IdsAmbiente(loadDatabase), remocao \in RemocaoEntrada, gravou \in BOOLEAN :
       OpDeleteAmbiente(id, remocao, gravou)
  \/ \E gravou \in BOOLEAN : OpSincronizarAmbientesExistentes(<<>>, FALSE, gravou)
  \/ \E permissoes \in PermissoesEntrada, gravou \in BOOLEAN :
       OpCreatePerfil("Operador", permissoes, gravou)
  \/ \E id \in IdsPerfil(loadDatabase), gravou \in BOOLEAN :
       OpUpdatePerfil(id, [ativo |-> FALSE], gravou)
  \/ \E id \in IdsPerfil(loadDatabase), gravou \in BOOLEAN : OpDeletePerfil(id, gravou)
  \/ \E username \in {<<"b">>, <<" ">>}, ambienteId \in IdsAmbiente(loadDatabase),
        gravou \in BOOLEAN :
       OpCreateLogin(username, "p", ambienteId, NullId, gravou)
  \/ \E id \in IdsLogin(loadDatabase), dados \in DadosLoginEntrada(loadDatabase),
        gravou \in BOOLEAN :
       OpUpdateLogin(id, dados, gravou)
  \/ \E id \in IdsLogin(loadDatabase), gravou \in BOOLEAN : OpDeleteLogin(id, gravou)

SpecStore == Init /\ [][NextStore]_vars

\* bursts of create-environment requests, the writes succeeding
NextPedidos ==
  \/ Tique
  \/ \E pedido \in 1..MaxPedidos, nome \in NomesEntrada, porta \in PortasEntrada :
       ReceberPedido(pedido, nome, porta)
  \/ \E p \in pedidos, gravou \in EscritasAoCarregar : CarregarPedido(p, gravou)
  \/ \E p \in pedidos : ConcluirPedido(p, TRUE)
  \/ FimDosPedidos

SpecPedidos == Init /\ [][NextPedidos]_vars

\* the calls on one environment and its logins, from a new installation on,
\* on a disk whose writes may fail
NextNova ==
  \/ \E gravou \in BOOLEAN : OpCreateAmbiente("QA", 5000, <<>>, gravou)
  \/ \E id \in IdsAmbiente(loadDatabase), gravou \in BOOLEAN :
       OpDeleteAmbiente(id, "inexistente", gravou)
  \/ \E username \in UsernamesEntrada, ambienteId \in IdsAmbiente(loadDatabase),
        gravou \in BOOLEAN :
       OpCreateLogin(username, "p", ambienteId, NullId, gravou)
  \/ \E id \in IdsLogin(loadDatabase), dados \in DadosLoginEntrada(loadDatabase),
        gravou \in BOOLEAN :
       OpUpdateLogin(id, dados, gravou)
  \/ \E id \in IdsLogin(loadDatabase), gravou \in BOOLEAN : OpDeleteLogin(id, gravou)

SpecNova == InitNova /\ [][NextNova]_vars

\* creations from a new installation on, on a disk whose writes may fail
\* and whose database.json may be left unreadable
NextIlegivel ==
  \/ CorromperArquivo
  \/ \E nome \in NomesEntrada, porta \in PortasEntrada, gravou \in BOOLEAN :
       OpCreateAmbiente(nome, porta, <<>>, gravou)
  \/ \E ambienteId \in IdsAmbiente(loadDatabase), gravou \in BOOLEAN :
       OpCreateLogin(<<"b">>, "p", ambienteId, NullId, gravou)
  \/ \E id \in IdsLogin(loadDatabase), gravou \in BOOLEAN : OpDeleteLogin(id, gravou)

SpecIlegivel == InitNova /\ [][NextIlegivel]_vars

\* environments on a disk that holds the test environment: synchronized
\* one integration at a time, one environment at a time, and all at once
NextSincronia ==
  \/ Tique
  \/ \E pastas \in PastasTeste : ImplantarTeste(pastas)
  \/ RotaCriarAmbiente(NomeDetectado(5000), 5000, <<"v8">>, TRUE)
  \/ RotaCriarAmbiente(NomeDetectado(5001), 5001, <<"hubcredito", "v8">>, TRUE)
  \/ Sujar(Sujeira(PathDaPorta(5000), "shared"))
  \/ Sujar(Sujeira(PathDaPorta(5001), "hubcredito"))
  \/ \E id \in IdsAmbiente(loadDatabase) : OpSincronizarAmbiente(id)
  \/ OpSincronizarTodosAmbientes

SpecSincronia == Init /\ [][NextSincronia]_vars

\* the copy between the test environment and the directory of one
\* environment, which holds what its services left there
NextCopia ==
  \/ \E pastas \in PastasTeste : ImplantarTeste(pastas)
  \/ \E item \in {"shared", "config", "V8", "hubcredito"} :
       Sujar(Sujeira(PathDaPorta(5000), item))
  \/ \E item \in {"shared", "V8", "hubcredito"}, bancoId \in {Null, "v8"} :
       OpCopiarDiretorio(Juntar(AMBIENTE_TESTE, item), <<PathDaPorta(5000), item>>, bancoId)
  \/ \E item \in {"shared", "V8"} :
       OpCopiarDiretorio(<<PathDaPorta(5000), item>>, <<PathDaPorta(5001), item>>, Null)

SpecCopia == Init /\ [][NextCopia]_vars

\* the filter on the config.env of one integration directory
NextFiltro ==
  \/ \E conteudo \in ConteudosConfigEnv :
       EscreverConfigEnv(<<PathDaPorta(5000), "V8">>, conteudo)
  \/ \E bancoId \in {"presencabank", "v8", "hubcredito", "outro"} :
       OpLimparConfigEnvBanco(<<PathDaPorta(5000), "V8">>, bancoId)

SpecFiltro == Init /\ [][NextFiltro]_vars

\* one environment whose permitted integrations change, on a disk that
\* holds the test environment: the calls made for one integration
NextBanco ==
  \/ \E pastas \in PastasTeste : ImplantarTeste(pastas)
  \/ RotaCriarAmbiente(NomeDetectado(5000), 5000, <<"v8">>, TRUE)
  \/ \E id \in IdsAmbiente(loadDatabase), bancos \in {<<>>, <<"hubcredito">>} :
       OpUpdateBancosPermitidos(id, bancos, TRUE)
  \/ Sujar(Sujeira(PathDaPorta(5000), "hubcredito"))
  \/ \E id \in IdsAmbiente(loadDatabase), bancoId \in BancoIdsEntrada :
       OpSincronizarBanco(id, bancoId)
  \/ \E id \in IdsAmbiente(loadDatabase), bancoId \in BancoIdsEntrada,
        validarToken \in BOOLEAN :
       OpAtualizarCredenciaisBanco(id, bancoId, [login |-> <<"x">>, senha |-> <<"y">>],
                                   validarToken)
  \/ \E chamada \in validando, validacao \in ValidacaoEntrada :
       ValidacaoRetorna(chamada, validacao)

SpecBanco == Init /\ [][NextBanco]_vars

\* what a deployment puts into an environment directory
ArvoreImplantada(pasta) ==
  {[caminho |-> <<pasta>>, ehDiretorio |-> TRUE, conteudo |-> <<>>],
   [caminho |-> <<pasta, "V8">>, ehDiretorio |-> TRUE, conteudo |-> <<>>],
   [caminho |-> <<pasta, "V8", "index.js">>, ehDiretorio |-> FALSE, conteudo |-> <<"v8">>],
   [caminho |-> <<pasta, "package.json">>, ehDiretorio |-> FALSE, conteudo |-> <<"{}">>]}

\* files are put into a directory from outside the program
Implantar(pasta) ==
  /\ disco' = disco \cup ArvoreImplantada(pasta)
  /\ ultimaOp' = [op |-> "implantar"]
  /\ UNCHANGED <<db, agora, envFile, validando, lote, emVoo, pcLote>>
  /\ SemEscrita

\* environments created and deleted, their directories filled from outside
NextRemocao ==
  \/ Tique
  \/ \E gravou \in BOOLEAN : RotaCriarAmbiente("QA", 5000, <<>>, gravou)
  \/ OpCreateAmbiente(NomeDetectado(5000), 4000, <<>>, TRUE)
  \/ Implantar(PathDaPorta(5000))
  \/ \E id \in IdsAmbiente(loadDatabase), remocao \in RemocaoEntrada, gravou \in BOOLEAN :
       OpDeleteAmbiente(id, remocao, gravou)

SpecRemocao == Init /\ [][NextRemocao]_vars

(***************************************************************************)
(* Properties of the environment records.                                  *)
(***************************************************************************)
EhSincronizacao(op) == op.op = "sincronizarAmbientesExistentes"

PortaDetectada(op, porta) ==
  \E k \in 1..Len(op.detectados) : op.detectados[k].porta = porta

PortasUnicas ==
  \A i, j \in 1..Len(db.ambientes) :
     i # j => db.ambientes[i].porta # db.ambientes[j].porta

\* C1: no two environment records ever share a port, whatever sequence of
\* create, reconcile, update, update-permitted-integrations and delete calls
\* ran (reconcile being fed lists that hold the same port twice); and a
\* create call for a port some record holds, active or not, fails and leaves
\* the environment list as it was.
C1_PortaUnica ==
  /\ []PortasUnicas
  /\ [][(/\ ultimaOp'.op = "createAmbiente"
         /\ \E i \in 1..Len(db.ambientes) : db.ambientes[i].porta = ultimaOp'.porta)
        => (/\ ~ultimaOp'.res.success
            /\ db'.ambientes = db.ambientes)]_vars

\* a create call was refused for a port held by an inactive record, one that
\* reconcile registered from a directory whose name is not the canonical one
\* (two directories of the same port were on disk)
C1_Witness ==
  /\ ultimaOp.op = "createAmbiente"
  /\ ~ultimaOp.res.success
  /\ ultimaOp.res.error = "Porta já está em uso"
  /\ \E i \in 1..Len(db.ambientes) :
       /\ db.ambientes[i].porta = ultimaOp.porta
       /\ ~db.ambientes[i].ativo
       /\ Len(db.ambientes[i].id) = 3
       /\ db.ambientes[i].path # PathDaPorta(ultimaOp.porta)

\* C2: no two environment records have the same display name, the records
\* reconcile creates under its generated name included.
C2_NomeUnico ==
  \A i, j \in 1..Len(db.ambientes) :
     i # j => db.ambientes[i].nome # db.ambientes[j].nome

\* C3: a reconcile call leaves every non-empty permitted-integrations set as
\* it was, whatever was detected for the record's port.
C3_ConjuntoNaoVazioPreservado ==
  [][EhSincronizacao(ultimaOp')
     => \A i \in 1..Len(db.ambientes) :
          Len(db.ambientes[i].bancosPermitidos) > 0
          => /\ i <= Len(db'.ambientes)
             /\ db'.ambientes[i].id = db.ambientes[i].id
             /\ db'.ambientes[i].bancosPermitidos = db.ambientes[i].bancosPermitidos]_vars

\* reconcile ran over a record holding ["hubcredito"] (a set no detection
\* yields, so an operator wrote it) whose port was detected with another set
C3_Witness ==
  /\ EhSincronizacao(ultimaOp)
  /\ \E i \in 1..Len(db.ambientes), k \in 1..Len(ultimaOp.detectados) :
       /\ ultimaOp.detectados[k].porta = db.ambientes[i].porta
       /\ db.ambientes[i].bancosPermitidos = <<"hubcredito">>
       /\ Len(ultimaOp.detectados[k].bancosPermitidos) > 0
       /\ ultimaOp.detectados[k].bancosPermitidos # <<"hubcredito">>

\* C4: the set an operator wrote with update-permitted-integrations (the
\* empty set included) is the set the record holds after the reconcile that
\* follows, whatever directories the environment's directory holds.
C4_ConjuntoManualPreservado ==
  [][(/\ ultimaOp.op = "updateBancosPermitidos"
      /\ ultimaOp.res.success
      /\ EhSincronizacao(ultimaOp'))
     => LET i == FindIndex({n \in 1..Len(db.ambientes) : db.ambientes[n].id = ultimaOp.id})
        IN db'.ambientes[i].bancosPermitidos = ultimaOp.bancos]_vars

\* C5: reconcile removes no record; after it every record whose port was not
\* detected and is not 4000 is inactive; a record of port 4000 that was not
\* detected keeps its active flag.
C5_InativaSemRemover ==
  [][EhSincronizacao(ultimaOp')
     => /\ Len(db'.ambientes) >= Len(db.ambientes)
        /\ \A i \in 1..Len(db.ambientes) :
             /\ db'.ambientes[i].id = db.ambientes[i].id
             /\ db'.ambientes[i].porta = db.ambientes[i].porta
             /\ (db.ambientes[i].porta = 4000 /\ ~PortaDetectada(ultimaOp', 4000))
                => db'.ambientes[i].ativo = db.ambientes[i].ativo
        /\ \A i \in 1..Len(db'.ambientes) :
             (db'.ambientes[i].porta # 4000
                /\ ~PortaDetectada(ultimaOp', db'.ambientes[i].porta))
             => ~db'.ambientes[i].ativo]_vars

\* reconcile ran with nothing detected over an active record of port 4000
\* and a record of another port: the first is still active, the second is not
C5_Witness ==
  /\ EhSincronizacao(ultimaOp)
  /\ ultimaOp.detectados = <<>>
  /\ \E i, j \in 1..Len(db.ambientes) :
       /\ db.ambientes[i].porta = 4000
       /\ db.ambientes[i].ativo
       /\ db.ambientes[j].porta # 4000
       /\ ~db.ambientes[j].ativo

(***************************************************************************)
(* Properties of login authentication.                                     *)
(***************************************************************************)
EhAutenticacao(op) == op.op = "authenticateLogin"

\* the login records whose username is the input, trimmed, without case
LoginsDoUsername(username) ==
  {n \in 1..Len(db.logins) :
     /\ db.logins[n].username # <<>>
     /\ ToLowerCase(db.logins[n].username) = ToLowerCase(Trim(username))}

PerfilDoLogin(l) == {n \in 1..Len(db.perfis) : db.perfis[n].id = l.perfilId}

AmbienteDoLogin(l) == {n \in 1..Len(db.ambientes) : db.ambientes[n].id = l.ambienteId}

AmbienteExisteInativo(l) ==
  /\ AmbienteDoLogin(l) # {}
  /\ ~db.ambientes[FindIndex(AmbienteDoLogin(l))].ativo

PerfilAtivoSeHouver(l) ==
  PerfilDoLogin(l) # {} => db.perfis[FindIndex(PerfilDoLogin(l))].ativo

\* C7 as stated: a login whose environment exists and is inactive, called
\* with its own username and password, fails with AMBIENTE_INACTIVE.
C7_AmbienteInativo ==
  EhAutenticacao(ultimaOp)
  => \A n \in LoginsDoUsername(ultimaOp.username) :
       (/\ verifyPassword(ultimaOp.password, db.logins[n].passwordHash)
        /\ AmbienteExisteInativo(db.logins[n]))
       => ultimaOp.res = FalhaLogin("AMBIENTE_INACTIVE")

\* C7 amended: when the first login record of the username (compared
\* trimmed and without case) is active, has the password, has no inactive
\* profile in the document, and its environment exists and is inactive,
\* authenticate-login fails with AMBIENTE_INACTIVE.
C7_AmbienteInativoLoginAtivo ==
  (EhAutenticacao(ultimaOp) /\ LoginsDoUsername(ultimaOp.username) # {})
  => LET l == db.logins[FindIndex(LoginsDoUsername(ultimaOp.username))]
     IN (/\ verifyPassword(ultimaOp.password, l.passwordHash)
         /\ l.ativo
         /\ PerfilAtivoSeHouver(l)
         /\ AmbienteExisteInativo(l))
        => ultimaOp.res = FalhaLogin("AMBIENTE_INACTIVE")

\* an active login with an active profile and an inactive environment was
\* authenticated with its username (typed in another case, with a blank) and
\* its password
C7_Witness ==
  /\ EhAutenticacao(ultimaOp)
  /\ ultimaOp.res = FalhaLogin("AMBIENTE_INACTIVE")
  /\ \E n \in LoginsDoUsername(ultimaOp.username) :
       /\ db.logins[n].username # ultimaOp.username
       /\ verifyPassword(ultimaOp.password, db.logins[n].passwordHash)
       /\ db.logins[n].ativo
       /\ PerfilDoLogin(db.logins[n]) # {}
       /\ PerfilAtivoSeHouver(db.logins[n])
       /\ AmbienteExisteInativo(db.logins[n])

\* the checks of authenticate-login on the first login of the username, in
\* the order of their failure kinds
VerificacoesLogin(username, password) ==
  LET achou == LoginsDoUsername(username) # {}
      l == db.logins[FindIndex(LoginsDoUsername(username))]
  IN << <<achou, "USER_NOT_FOUND">>,
        <<achou => l.ativo, "USER_INACTIVE">>,
        <<achou => verifyPassword(password, l.passwordHash), "INVALID_PASSWORD">>,
        <<achou => PerfilAtivoSeHouver(l), "PERFIL_INACTIVE">>,
        <<achou => AmbienteDoLogin(l) # {}, "AMBIENTE_NOT_FOUND">>,
        <<achou => ~AmbienteExisteInativo(l), "AMBIENTE_INACTIVE">> >>

\* C8: authenticate-login succeeds exactly when the login of the username
\* exists, is active, has the password, has no inactive profile, and has an
\* environment that exists and is active; otherwise it returns the failure
\* kind of the first check that fails, in the order user not found, user
\* inactive, wrong password, profile inactive, environment not found,
\* environment inactive; and the call leaves the document as it was.
C8_PrimeiraFalha ==
  /\ [](EhAutenticacao(ultimaOp)
        => LET v == VerificacoesLogin(ultimaOp.username, ultimaOp.password)
               falhas == {k \in 1..Len(v) : ~v[k][1]}
           IN /\ ultimaOp.res.success <=> falhas = {}
              /\ falhas # {} => ultimaOp.res = FalhaLogin(v[FindIndex(falhas)][2]))
  /\ [][EhAutenticacao(ultimaOp') => db' = db]_vars

\* a call with the wrong password for an inactive login bound to a deleted
\* environment: three checks fail and the first of them, user inactive, is
\* what was returned
C8_Witness ==
  /\ EhAutenticacao(ultimaOp)
  /\ ultimaOp.res = FalhaLogin("USER_INACTIVE")
  /\ \E n \in LoginsDoUsername(ultimaOp.username) :
       /\ ~verifyPassword(ultimaOp.password, db.logins[n].passwordHash)
       /\ AmbienteDoLogin(db.logins[n]) = {}

(***************************************************************************)
(* Properties of the credential file codec.                                *)
(***************************************************************************)
EhGravacaoDeCredenciais(op) ==
  /\ op.op = "atualizarCredenciaisBanco"
  /\ op.res.success

\* the lines that start with none of the integration's key names
LinhasAlheias(conteudo, bancoId) ==
  LET campos == mapeamentoCredenciais(bancoId)
      chaves == {campos.login, campos.senha, campos.usr, campos.pass}
  IN SelectSeq(Split(conteudo, "\n"),
               LAMBDA linha : linha = <<>> \/ Head(linha) \notin chaves)

ConteudoEnv(arquivos, path) ==
  IF existsSync(arquivos, path) THEN readFileSync(arquivos, path) ELSE <<>>

\* C6, first half: once update-credential has written a login and a
\* password, both non-empty, reading the credentials of the same environment
\* and integration returns exactly that login and that password, whatever
\* the file held before and whatever characters the values hold.
C6_IdaEVolta ==
  (/\ EhGravacaoDeCredenciais(ultimaOp)
   /\ ultimaOp.credenciais.login # <<>>
   /\ ultimaOp.credenciais.senha # <<>>)
  => LET lido == obterCredenciaisBanco(db, envFile, ultimaOp.ambienteId, ultimaOp.bancoId)
     IN /\ lido.success
        /\ lido.credenciais = ultimaOp.credenciais

\* C6, second half: a write of update-credential keeps every line that
\* starts with none of the integration's key names, unchanged and in order.
C6_OutrasLinhasPreservadas ==
  [][EhGravacaoDeCredenciais(ultimaOp')
     => \A a \in 1..Len(db.ambientes) :
          db.ambientes[a].id = ultimaOp'.ambienteId
          => LinhasAlheias(ConteudoEnv(envFile', db.ambientes[a].path), ultimaOp'.bancoId)
               = LinhasAlheias(ConteudoEnv(envFile, db.ambientes[a].path),
                               ultimaOp'.bancoId)]_vars

(***************************************************************************)
(* Properties of the batch job.                                            *)
(***************************************************************************)
HaLote == lote.status # "nenhum"

\* C9: in every state of a batch job processed = succeeded + failed,
\* processed <= total and the number of recorded results is processed; and
\* when the status is concluido, processed = total.
C9_ContadoresDoLote ==
  HaLote
  => /\ lote.progresso.processados = lote.progresso.sucesso + lote.progresso.erro
     /\ lote.progresso.processados <= lote.progresso.total
     /\ Len(lote.resultados) = lote.progresso.processados
     /\ lote.status = "concluido" => lote.progresso.processados = lote.progresso.total

\* C10, first half, in a form a finite run refutes: a job none of whose
\* lookups is pending, every lookup having returned or thrown, has the
\* status concluido.
C10_LoteTermina ==
  (HaLote /\ emVoo = {}) => lote.status = "concluido"

\* C10, second half: once the status is concluido, the job never changes.
C10_ConcluidoNaoMuda ==
  [][(HaLote /\ lote.status = "concluido") => lote' = lote]_vars

(***************************************************************************)
(* Properties of the store calls that fail.                                *)
(***************************************************************************)
MutacoesDaStore ==
  {"createAmbiente", "updateAmbiente", "updateBancosPermitidos", "deleteAmbiente",
   "sincronizarAmbientesExistentes", "createPerfil", "updatePerfil", "deletePerfil",
   "createLogin", "updateLogin", "deleteLogin"}

\* C11: a mutating store call whose write of the document failed returns a
\* failure to its caller: none reports success after saveDatabase returned
\* false.
C11_FalhaDeEscrita ==
  [][(ultimaOp'.op \in MutacoesDaStore /\ escrita' = "falhou")
        => ~ultimaOp'.res.success]_vars

\* C12: a store call that returns a not-found, conflict or validation
\* failure (it returns before saveDatabase) leaves the document as it was:
\* what the next call loads, and persists, is what this call loaded.
C12_FalhaNaoAltera ==
  [][(/\ ultimaOp'.op \in MutacoesDaStore
      /\ escrita' = "nenhuma"
      /\ ~ultimaOp'.res.success)
        => loadDatabase' = loadDatabase]_vars

(***************************************************************************)
(* Properties of delete-environment.                                       *)
(***************************************************************************)
\* the first record of the identifier in the document d; 0 when there is none
IndiceDoAmbiente(d, id) ==
  FindIndex({n \in 1..Len(d.ambientes) : d.ambientes[n].id = id})

DiscoIntacto == disco' = disco /\ envFile' = envFile

\* C13: delete-environment on an existing id removes the record from the
\* document before it touches the directory (nothing on disk changes unless
\* the record was removed and saved); when the directory is still there
\* after a saved removal, because removing it failed, the record stays
\* removed and the call returns success with a warning.  The call fails
\* only for an unknown id or a failed write; for an unknown id neither the
\* document nor the disk changes.
C13_RegistroAntesDaPasta ==
  [][ultimaOp'.op = "deleteAmbiente" =>
       LET i == IndiceDoAmbiente(loadDatabase, ultimaOp'.id)
           removido == loadDatabase'.ambientes = Splice(loadDatabase.ambientes, i)
       IN /\ i = 0 => (/\ ~ultimaOp'.res.success
                       /\ loadDatabase' = loadDatabase
                       /\ DiscoIntacto)
          /\ (i # 0 /\ escrita' = "falhou") => (~ultimaOp'.res.success /\ DiscoIntacto)
          /\ (i # 0 /\ escrita' = "ok") =>
                (/\ ultimaOp'.res.success
                 /\ removido
                 /\ existe(disco', <<loadDatabase.ambientes[i].path>>)
                      => "warning" \in DOMAIN ultimaOp'.res)
          /\ ~DiscoIntacto => (i # 0 /\ removido)
          /\ ~ultimaOp'.res.success => (i = 0 \/ escrita' = "falhou")]_vars

\* a removal that threw half way: the record is gone, the directory and a
\* part of its files are still there, and the call returned the warning
C13_Witness ==
  /\ ultimaOp.op = "deleteAmbiente"
  /\ ultimaOp.res.success
  /\ "warning" \in DOMAIN ultimaOp.res
  /\ IndiceDoAmbiente(db, ultimaOp.id) = 0
  /\ existe(disco, <<PathDaPorta(5000)>>)
  /\ ~existe(disco, <<PathDaPorta(5000), "V8", "index.js">>)
  /\ existe(disco, <<PathDaPorta(5000), "package.json">>)

(***************************************************************************)
(* C14: sync-one and update-credential, called for an unknown environment  *)
(* id or for an integration that is not among those permitted to the       *)
(* environment, return a failure and write nothing: no directory is made   *)
(* or copied, no .env is changed, and the validation is not called.        *)
(***************************************************************************)
\* a step that is a call of sincronizarBanco or of atualizarCredenciaisBanco
\* (a step that ends a validation takes a call out of validando)
EhChamadaDeBanco ==
  /\ ultimaOp'.op \in {"sincronizarBanco", "atualizarCredenciaisBanco", "validarTokenBanco"}
  /\ validando \subseteq validando'

UnidadesTentadas(d, nos, a) ==
  Len(d.ambientes[a].bancosPermitidos)
    + Cardinality({i \in 1..Len(compartilhados) :
                     existe(nos, Juntar(AMBIENTE_TESTE, compartilhados[i]))})

AmbientesAtivos(d) == {i \in 1..Len(d.ambientes) : d.ambientes[i].ativo}

C15_UmaEntradaPorUnidade ==
  [][/\ (/\ ultimaOp'.op = "sincronizarAmbiente"
          /\ IndiceDoAmbiente(loadDatabase, ultimaOp'.ambienteId) # 0)
            => /\ ~ultimaOp'.lancou
               /\ ultimaOp'.res.success
               /\ Len(ultimaOp'.res.resultados)
                    = UnidadesTentadas(loadDatabase, disco,
                                       IndiceDoAmbiente(loadDatabase, ultimaOp'.ambienteId))
     /\ ultimaOp'.op = "sincronizarTodosAmbientes"
            => /\ ~ultimaOp'.lancou
               /\ ultimaOp'.res.success
               /\ Len(ultimaOp'.res.resultados)
                    = Cardinality(AmbientesAtivos(loadDatabase))]_vars

(***************************************************************************)
(* C16: when update-credential awaited the validation, the .env is written *)
(* only if the validation reported success; when it reported a failure or  *)
(* threw, the result is a failure and the .env is left as it was.          *)
(***************************************************************************)
\* a step in which validarTokenBanco settles and the call runs to its end
EhFimDeValidacao == validando' # validando /\ validando' \subseteq validando

C16_GravaSoValidado ==
  [][EhFimDeValidacao
       => /\ ultimaOp'.res.success => ultimaOp'.res.validacao = "sucesso"
          /\ ~ultimaOp'.res.success => envFile' = envFile]_vars

(***************************************************************************)
(* C17: a credential write is an upsert by lines.  For each field given,   *)
(* the first line of the primary key is replaced in place; when there is   *)
(* none, the first line of the alternate key is replaced in place; when    *)
(* there is none either, a line with the primary key is appended.  No      *)
(* other line changes.                                                     *)
(***************************************************************************)
\* the lines one field may leave, by the rule above (a replaced line of the
\* alternate key may keep its key or take the primary one)
UpsertEsperado(linhas, primario, alternativo, valor) ==
  LET ip == FindIndex({n \in 1..Len(linhas) : StartsWith(linhas[n], <<primario, "=">>)})
      ia == FindIndex({n \in 1..Len(linhas) : StartsWith(linhas[n], <<alternativo, "=">>)})
  IN IF ip # 0 THEN {[linhas EXCEPT ![ip] = <<primario, "=">> \o valor]}
     ELSE IF ia # 0
     THEN {[linhas EXCEPT ![ia] = <<chave, "=">> \o valor] : chave \in {primario, alternativo}}
     ELSE {Append(linhas, <<primario, "=">> \o valor)}

GravacaoEsperada(linhas, bancoId, credenciais) ==
  LET campos == mapeamentoCredenciais(bancoId)
      comLogin == IF credenciais.login = <<>> THEN {linhas}
                  ELSE UpsertEsperado(linhas, campos.login, campos.usr, credenciais.login)
  IN UNION {IF credenciais.senha = <<>> THEN {l}
            ELSE UpsertEsperado(l, campos.senha, campos.pass, credenciais.senha) :
              l \in comLogin}

C17_GravacaoPorLinha ==
  [][EhGravacaoDeCredenciais(ultimaOp')
     => \A a \in 1..Len(db.ambientes) :
          db.ambientes[a].id = ultimaOp'.ambienteId
          => Split(ConteudoEnv(envFile', db.ambientes[a].path), "\n")
               \in GravacaoEsperada(Split(ConteudoEnv(envFile, db.ambientes[a].path), "\n"),
                                    ultimaOp'.bancoId, ultimaOp'.credenciais)]_vars

(***************************************************************************)
(* C18: a credential read that succeeds returns, for the login and for the *)
(* password, the value of the first line of the file that matches the key  *)
(* of the field, whatever lines follow; a field no line matches is absent. *)
(***************************************************************************)
ValorDaPrimeiraLinha(linhas, campo, primario) ==
  LET i == FindIndex({n \in 1..Len(linhas) : LinhaDoCampo(linhas[n], campo, primario)})
  IN IF i = 0 THEN Ausente ELSE ValorDaLinha(linhas[i])

C18_PrimeiraLinhaVale ==
  (ultimaOp.op = "obterCredenciaisBanco" /\ ultimaOp.res.success)
  => LET a == IndiceDoAmbiente(db, ultimaOp.ambienteId)
         linhas == Split(readFileSync(envFile, db.ambientes[a].path), "\n")
         campos == mapeamentoCredenciais(ultimaOp.bancoId)
     IN /\ ultimaOp.res.credenciais.login
             = ValorDaPrimeiraLinha(linhas, Ou(campos.login, campos.usr), campos.login)
        /\ ultimaOp.res.credenciais.senha
             = ValorDaPrimeiraLinha(linhas, Ou(campos.senha, campos.pass), campos.senha)

(***************************************************************************)
(* C19: in every state the document holds no two login records whose       *)
(* usernames are equal without regard to case.                             *)
(***************************************************************************)
C19_UsernameUnico ==
  \A i \in 1..Len(db.logins) : \A j \in 1..Len(db.logins) :
     ToLowerCase(db.logins[i].username) = ToLowerCase(db.logins[j].username) => i = j

(***************************************************************************)
(* C20: after a copy without integration id has completed, the destination *)
(* holds at no depth an entry named node_modules, logs or .git or whose    *)
(* name starts with a dot, and every other file and directory of the       *)
(* source is in the destination, files with the content of the source.     *)
(***************************************************************************)
EhCopiaCompleta(op) ==
  op.op = "copiarDiretorio" /\ op.res = "true" /\ op.bancoId = Null

\* the names the claim speaks of
NomeExcluido(item) ==
  item \in {"node_modules", "logs", ".git"} \/ item \in NomesComPonto

\* whether caminho, below raiz, has such a name or lies under one
TemIgnorado(raiz, caminho) ==
  \E k \in (Len(raiz) + 1)..Len(caminho) : NomeExcluido(caminho[k])

\* the place in destino of what is at caminho in origem
NoDestino(origem, destino, caminho) ==
  destino \o SubSeq(caminho, Len(origem) + 1, Len(caminho))

\* the entry of the source is in the destination, with its content
Copiado(nos, n, origem, destino) ==
  \E m \in nos : /\ m.caminho = NoDestino(origem, destino, n.caminho)
                  /\ m.ehDiretorio = n.ehDiretorio
                  /\ m.conteudo = n.conteudo

\* as the claim states it; the other entries of the source are those that
\* neither have such a name nor lie under one
C20_DestinoSemIgnorados ==
  EhCopiaCompleta(ultimaOp)
  => /\ \A n \in disco : Sob(ultimaOp.destino, n.caminho)
                           => ~TemIgnorado(ultimaOp.destino, n.caminho)
     /\ \A n \in disco : (/\ Sob(ultimaOp.origem, n.caminho)
                           /\ n.caminho # ultimaOp.origem
                           /\ ~TemIgnorado(ultimaOp.origem, n.caminho))
                            => Copiado(disco, n, ultimaOp.origem, ultimaOp.destino)

\* the destination has a file at the place of a directory of the source
FicheiroNoLugarDePasta(nos, origem, destino) ==
  \E n \in nos : /\ Sob(origem, n.caminho)
                  /\ n.ehDiretorio
                  /\ existe(nos, NoDestino(origem, destino, n.caminho))
                  /\ ~No(nos, NoDestino(origem, destino, n.caminho)).ehDiretorio

\* C20 as the code has it: a completed copy adds, changes and removes no
\* entry of the destination that has such a name or lies under one; and,
\* when the destination had no file at the place of a directory of the
\* source, every entry of the source that neither has such a name nor lies
\* under one is in the destination, files with the content of the source.
C20_CopiaSemIgnorados ==
  [][EhCopiaCompleta(ultimaOp')
     => /\ {n \in disco' : /\ Sob(ultimaOp'.destino, n.caminho)
                            /\ TemIgnorado(ultimaOp'.destino, n.caminho)}
           = {n \in disco : /\ Sob(ultimaOp'.destino, n.caminho)
                            /\ TemIgnorado(ultimaOp'.destino, n.caminho)}
        /\ ~FicheiroNoLugarDePasta(disco, ultimaOp'.origem, ultimaOp'.destino)
             => \A n \in disco' :
                  (/\ Sob(ultimaOp'.origem, n.caminho)
                   /\ n.caminho # ultimaOp'.origem
                   /\ ~TemIgnorado(ultimaOp'.origem, n.caminho))
                    => Copiado(disco', n, ultimaOp'.origem, ultimaOp'.destino)]_vars

\* a copy completed from a source that holds entries with such names into
\* a destination that holds node_modules and logs of its own
C20_Witness ==
  /\ EhCopiaCompleta(ultimaOp)
  /\ \E n \in disco : /\ Sob(ultimaOp.origem, n.caminho)
                       /\ n.caminho[Len(n.caminho)] \in NomesComPonto
  /\ existe(disco, Juntar(Juntar(ultimaOp.origem, "node_modules"), "a.js"))
  /\ existe(disco, Juntar(ultimaOp.destino, "node_modules"))
  /\ ~existe(disco, Juntar(Juntar(ultimaOp.destino, "node_modules"), "a.js"))
  /\ existe(disco, Juntar(ultimaOp.destino, "config"))

(***************************************************************************)
(* C21: after a copy with the id of an integration of the catalog has      *)
(* completed, config/config.env at the top of the destination holds the    *)
(* filtered content of that file of the source, and every other file the   *)
(* copy takes, at every depth, holds the content of its source file.       *)
(***************************************************************************)
EhCopiaDeBanco(op) ==
  /\ op.op = "copiarDiretorio"
  /\ op.res = "true"
  /\ op.bancoId \in {"presencabank", "v8", "hubcredito"}

C21_SoConfigEnvFiltrado ==
  EhCopiaDeBanco(ultimaOp)
  => \A n \in disco :
       (/\ Sob(ultimaOp.origem, n.caminho)
        /\ ~n.ehDiretorio
        /\ ~TemIgnorado(ultimaOp.origem, n.caminho))
         => LET lugar == NoDestino(ultimaOp.origem, ultimaOp.destino, n.caminho)
            IN /\ existe(disco, lugar)
               /\ No(disco, lugar).conteudo
                    = IF lugar = Juntar(Juntar(ultimaOp.destino, "config"), "config.env")
                      THEN filtrarConfigEnv(n.conteudo, ultimaOp.bancoId)
                      ELSE n.conteudo

(***************************************************************************)
(* C22: under the rules of an integration of the catalog the filter keeps  *)
(* a line if and only if, trimmed, it is empty, or starts with "#", or     *)
(* starts with one of the keep prefixes and with none of the drop          *)
(* prefixes; the lines kept stay in their order and are not altered.       *)
(***************************************************************************)
TemPrefixo(linha, prefixos) ==
  \E k \in 1..Len(prefixos) : ComecaCom(Trim(linha), prefixos[k])

DeveFicar(linha, bancoId) ==
  LET regras == credenciaisPorBanco(nomePastaBanco(bancoId))
  IN \/ Trim(linha) = <<>>
     \/ ComecaCom(Trim(linha), <<"#">>)
     \/ TemPrefixo(linha, regras.manter) /\ ~TemPrefixo(linha, regras.remover)

ConfigEnvDe(nos, bancoPath) ==
  No(nos, Juntar(Juntar(bancoPath, "config"), "config.env")).conteudo

C22_LinhasQueFicam ==
  [][(/\ ultimaOp'.op = "limparConfigEnvBanco"
      /\ ultimaOp'.bancoId \in {"presencabank", "v8", "hubcredito"})
        => ConfigEnvDe(disco', ultimaOp'.bancoPath)
             = Join(SelectSeq(Split(ConfigEnvDe(disco, ultimaOp'.bancoPath), "\n"),
                              LAMBDA linha : DeveFicar(linha, ultimaOp'.bancoId)),
                    "\n")]_vars

\* the filter of hubcredito dropped a line that starts with a drop prefix
\* and kept a line of the integration
C22_Witness ==
  /\ ultimaOp.op = "limparConfigEnvBanco"
  /\ ultimaOp.bancoId = "hubcredito"
  /\ ultimaOp.original = <<"V8_USERNAME", "=", "o", "\n", "HUBCREDITO_USR", "=", "o">>
  /\ ConfigEnvDe(disco, ultimaOp.bancoPath) = <<"HUBCREDITO_USR", "=", "o">>

(***************************************************************************)
(* C23: the filter applied to a content it has already filtered, with the  *)
(* same integration id, with or without rules, returns it unchanged.       *)
(***************************************************************************)
C23_FiltroIdempotente ==
  [][(ultimaOp'.op = "limparConfigEnvBanco" /\ ultimaOp'.vezes = 2)
       => disco' = disco]_vars

\* the filter was applied a second time to a content that its first
\* application had changed
C23_Witness ==
  /\ ultimaOp.op = "limparConfigEnvBanco"
  /\ ultimaOp.vezes = 2
  /\ ultimaOp.original # ConfigEnvDe(disco, ultimaOp.bancoPath)

(***************************************************************************)
(* Properties of requests served at once.                                  *)
(***************************************************************************)
\* whether the document holds a record of the port
TemPorta(d, porta) == \E n \in 1..Len(d.ambientes) : d.ambientes[n].porta = porta

IdsUnicos(d) ==
  \A i, j \in 1..Len(d.ambientes) : i # j => d.ambientes[i].id # d.ambientes[j].id

\* C25: no two environment records have the same identifier, also when two
\* create-environment calls for different ports and names are served in the
\* same clock millisecond; and update-environment,
\* update-permitted-integrations and reconcile leave the identifier of
\* every existing record as it was.
C25_IdsUnicosEEstaveis ==
  /\ [](IdsUnicos(db))
  /\ [][ultimaOp'.op \in {"updateAmbiente", "updateBancosPermitidos",
                          "sincronizarAmbientesExistentes"}
          => /\ Len(db'.ambientes) >= Len(db.ambientes)
             /\ \A n \in 1..Len(db.ambientes) : db'.ambientes[n].id = db.ambientes[n].id]_vars

(***************************************************************************)
(* C26: update-credential looks up the environment and the permission      *)
(* once, before it awaits the validation: when the validation returns      *)
(* without a failure the file is written even if the integration has been  *)
(* removed from the permitted ones meanwhile.  The write is made on the     *)
(* file as it is at that moment, with no await in between: every line of   *)
(* it that does not start with a key the call sets stays in its place, so   *)
(* the lines written by another call during the validation are kept.       *)
(***************************************************************************)
\* whether the call sets the key the line starts with
LinhaDaChamada(linha, c) ==
  \/ StartsWith(linha, <<mapeamentoCredenciais(c.bancoId).login, "=">>)
  \/ StartsWith(linha, <<mapeamentoCredenciais(c.bancoId).senha, "=">>)

C26_ChecaAntesGravaDepois ==
  [][EhFimDeValidacao
     => \A c \in validando \ validando' :
          LET antes == Split(ConteudoEnv(envFile, c.ambiente.path), "\n")
              depois == Split(ConteudoEnv(envFile', c.ambiente.path), "\n")
          IN /\ ~ultimaOp'.res.success => ultimaOp'.res.error = "Validação de token falhou"
             /\ ultimaOp'.res.success
                  => /\ Len(depois) >= Len(antes)
                     /\ \A n \in 1..Len(antes) :
                          ~LinhaDaChamada(antes[n], c) => depois[n] = antes[n]
                     /\ \E n \in 1..Len(depois) :
                          depois[n] = <<mapeamentoCredenciais(c.bancoId).login, "=">>
                                        \o c.credenciais.login]_vars

\* a call wrote the file after the integration had been removed from the
\* permitted ones, over the line another call had written during its
\* validation, while a third call of the environment awaits its own
C26_Witness ==
  /\ EhGravacaoDeCredenciais(ultimaOp)
  /\ ultimaOp.bancoId = "v8"
  /\ \E a \in 1..Len(db.ambientes) :
       /\ db.ambientes[a].id = ultimaOp.ambienteId
       /\ \A k \in 1..Len(db.ambientes[a].bancosPermitidos) :
            db.ambientes[a].bancosPermitidos[k] # "v8"
       /\ \E n \in 1..Len(Split(ConteudoEnv(envFile, db.ambientes[a].path), "\n")) :
            StartsWith(Split(ConteudoEnv(envFile, db.ambientes[a].path), "\n")[n],
                       <<"HUBCREDITO_USR", "=">>)
  /\ \E c \in validando : c.ambienteId = ultimaOp.ambienteId

(***************************************************************************)
(* C27: delete-environment removes the environment record and nothing      *)
(* else: the logins bound to it stay as they are, and for such a login,    *)
(* active and with no inactive profile, authenticate-login with the right  *)
(* password fails with AMBIENTE_NOT_FOUND from then on, until update-login *)
(* binds it to another environment.                                        *)
(***************************************************************************)
\* what authenticate-login returns for the n-th login and its password
EntradaDoLogin(d, n) ==
  authenticateLogin(d, d.logins[n].username, d.logins[n].passwordHash[2])

\* the n-th login is the one its username finds, and nothing but its
\* environment can make its authentication fail
SoDependeDoAmbiente(d, n) ==
  /\ BuscarLogin(d, ToLowerCase(d.logins[n].username)) = n
  /\ d.logins[n].ativo
  /\ \A p \in 1..Len(d.perfis) : d.perfis[p].id = d.logins[n].perfilId => d.perfis[p].ativo

SemAmbiente(d, n) ==
  /\ ~EntradaDoLogin(d, n).success
  /\ EntradaDoLogin(d, n).errorCode = "AMBIENTE_NOT_FOUND"

C27_LoginFicaSemAmbiente ==
  [][/\ (ultimaOp'.op = "deleteAmbiente" /\ ultimaOp'.res.success)
          => /\ db'.logins = db.logins
             /\ db'.perfis = db.perfis
             /\ Len(db'.ambientes) = Len(db.ambientes) - 1
             /\ \A n \in 1..Len(db.logins) :
                  (db.logins[n].ambienteId = ultimaOp'.id /\ SoDependeDoAmbiente(db, n))
                    => SemAmbiente(db', n)
     /\ (db'.logins = db.logins /\ db'.perfis = db.perfis)
          => \A n \in 1..Len(db.logins) : SemAmbiente(db, n) => SemAmbiente(db', n)]_vars

(***************************************************************************)
(* C28: after reconcile every record whose port was detected is active,    *)
(* a record deactivated through update-environment included; and a record  *)
(* of a port other than 4000 is active after reconcile if and only if its  *)
(* port was detected, so that nothing detected leaves all of them          *)
(* inactive.                                                               *)
(***************************************************************************)
C28_AtivoSeDetectado ==
  EhSincronizacao(ultimaOp)
  => \A i \in 1..Len(db.ambientes) :
       /\ PortaDetectada(ultimaOp, db.ambientes[i].porta) => db.ambientes[i].ativo
       /\ db.ambientes[i].porta # 4000
            => (db.ambientes[i].ativo <=> PortaDetectada(ultimaOp, db.ambientes[i].porta))

\* reconcile detected the port of a record that was inactive, and the
\* record is active
C28_Witness ==
  /\ EhSincronizacao(ultimaOp)
  /\ \E i \in 1..Len(db.ambientes) :
       /\ db.ambientes[i].porta \in ultimaOp.inativos
       /\ PortaDetectada(ultimaOp, db.ambientes[i].porta)
       /\ db.ambientes[i].ativo

(***************************************************************************)
(* C29: the handler of PUT /bancos/:bancoId/credenciais answers from what  *)
(* update-credential returned without awaiting it: every authenticated     *)
(* request for a permitted integration with a login or a password gets     *)
(* the status 400, whether the call has by then written the file, failed,  *)
(* or is awaiting the validation, after which it may still write the file. *)
(***************************************************************************)
EhPutCredenciais(op) == op.op = "PUT /bancos/:bancoId/credenciais"

\* the request is authenticated and passes the checks of the handler
PassaNaRota(op) ==
  /\ op.certas
  /\ \E a \in 1..Len(db.ambientes) :
       /\ db.ambientes[a].id = op.ambienteId
       /\ \A n \in 1..a - 1 : db.ambientes[n].id # op.ambienteId
       /\ \E k \in 1..Len(db.ambientes[a].bancosPermitidos) :
            db.ambientes[a].bancosPermitidos[k] = op.bancoId
  /\ op.credenciais.login # <<>> \/ op.credenciais.senha # <<>>

C29_SempreFalha ==
  (EhPutCredenciais(ultimaOp) /\ PassaNaRota(ultimaOp))
  => /\ ultimaOp.chamou
     /\ ultimaOp.status = 400
     /\ ultimaOp.resultado.estado = "pendente"
          => \E c \in validando : /\ c.ambienteId = ultimaOp.ambienteId
                                   /\ c.bancoId = ultimaOp.bancoId
                                   /\ c.credenciais = ultimaOp.credenciais

\* the request was answered while its call awaits the validation
C29_Witness ==
  /\ EhPutCredenciais(ultimaOp)
  /\ PassaNaRota(ultimaOp)
  /\ ultimaOp.status = 400
  /\ ultimaOp.resultado.estado = "pendente"
  /\ \E c \in validando : c.credenciais = ultimaOp.credenciais

(***************************************************************************)
(* C30: when database.json exists and cannot be read or parsed, load       *)
(* returns the default document, with no environment, profile or login;    *)
(* a mutation made then whose write succeeds leaves in the file the        *)
(* default document and its own change, so that nothing stored before is   *)
(* in it.                                                                  *)
(***************************************************************************)
Registros(d) == Len(d.ambientes) + Len(d.perfis) + Len(d.logins)

C30_VoltaAoPadrao ==
  [][(temArquivo /\ ilegivel)
       => /\ loadDatabase = DB_SCHEMA
          /\ (ultimaOp'.op \in {"createAmbiente", "createLogin", "deleteLogin"}
                /\ escrita' = "ok")
               => Registros(db') <= 1]_vars

====
